---- MODULE Spec2Model ----
(***************************************************************************)
(* Model of the text matcher (utils.py) and the SMS notice classifier      *)
(* (data_loaders.py) of the Ulleung dashboard.                             *)
(*                                                                         *)
(* A Python str is a sequence of characters; a character is a TLA+ string. *)
(* Hangul syllables are written in Revised Romanization, one string per    *)
(* syllable: <<"tae","ha","ri">> is the three-syllable word Taeha-ri; the   *)
(* vowel-only syllables carry an h_ prefix ("h_i") to keep them apart from *)
(* Latin letters.                                                          *)
(***************************************************************************)
EXTENDS Integers, Sequences, FiniteSets, TLC

(***************************************************************************)
(* Characters                                                              *)
(***************************************************************************)
Digits == {"0", "1", "2", "3", "4", "5", "6", "7", "8", "9"}
LatinLower == {"a", "b", "e", "g", "i", "j", "n", "p", "t", "w", "x"}
LatinUpper == {"A", "B", "G", "J", "P", "I_DOT"}   \* I_DOT: U+0130, dotted capital I
\* precomposed syllables U+AC00..U+D7A3 that the model's texts use
HangulSyllables ==
    {"ga", "gak",
     "gyeong", "sang", "buk", "do", "ul", "leung", "gun", "seo", "myeon",
     "tae", "ha", "ri", "gyeol", "hang", "chwi", "so", "un", "tong", "je",
     "h_i", "doe", "eot", "seup", "ni", "da", "si", "gan", "byeon", "doen",
     "ip", "ye", "jeong", "chak", "chul", "bal", "hab", "po", "yeong", "il",
     "man", "sa", "dong", "geum", "gwang", "hae", "ho", "dae", "jeo", "h_e",
     "chi", "mi", "rae", "h_u", "seong", "ju", "sik", "hoe", "han", "guk",
     "pe", "sseon", "ra", "jeu", "ssi", "seu", "bil", "keu", "ru",
     "ta", "nyu", "h_o", "peol", "kwin", "tab", "seung", "in", "won", "yeo",
     "gaek", "seon", "hwa", "mul", "cha", "ryang", "jeok", "taek", "bae",
     "ryu", "syeo", "teul", "gi", "ak", "ro",
     "nam", "yang", "sam", "geo", "hyeon", "cheon", "bu", "jang", "gwan", "eum",
     "teo", "neol", "bong", "pok", "na", "seok", "jeon", "mang", "yak", "gu"}
\* conjoining jamo U+1100 (choseong G), U+1161 (jungseong A), U+11A8 (jongseong G)
JamoL == "L_G"
JamoV == "V_A"
JamoT == "T_G"
COMBINING_DOT == "U0307"
Whitespace == {" ", "NL"}
Arrows == {"ARROW", "ARROW2"}               \* U+2192, U+27A1
Quotes == {"QUOTE", "APOS"}
Punct == {"-", ">", "(", ")", ":", ",", "."}

(***************************************************************************)
(* Sequence helpers (str methods of Python)                                *)
(***************************************************************************)
\* s[i:j] of Python, 1-based inclusive here
Slice(s, i, j) == IF j < i THEN <<>> ELSE SubSeq(s, i, j)

\* s.startswith(p, at i)
MatchesAt(s, p, i) ==
    /\ i >= 1
    /\ i + Len(p) - 1 <= Len(s)
    /\ \A k \in 1..Len(p) : s[i + k - 1] = p[k]

\* "p in s" of Python
Contains(s, p) == \E i \in 1..(Len(s) - Len(p) + 1) : MatchesAt(s, p, i)

RECURSIVE ReplaceFrom(_, _, _)
ReplaceFrom(s, old, i) ==
    IF i > Len(s) THEN <<>>
    ELSE IF MatchesAt(s, old, i) THEN ReplaceFrom(s, old, i + Len(old))
    ELSE <<s[i]>> \o ReplaceFrom(s, old, i + 1)

\* s.replace(old, "") with a non-empty old: leftmost non-overlapping occurrences
Replace(s, old) == ReplaceFrom(s, old, 1)

(***************************************************************************)
(* _norm_text                                                              *)
(***************************************************************************)
RECURSIVE NfcCompose(_, _)
NfcCompose(done, rest) ==
    IF rest = <<>> THEN done
    ELSE LET c == Head(rest)
             n == Len(done)
         IN  IF n > 0 /\ done[n] = JamoL /\ c = JamoV
             THEN NfcCompose(SubSeq(done, 1, n - 1) \o <<"ga">>, Tail(rest))
             ELSE IF n > 0 /\ done[n] = "ga" /\ c = JamoT
             THEN NfcCompose(SubSeq(done, 1, n - 1) \o <<"gak">>, Tail(rest))
             ELSE NfcCompose(Append(done, c), Tail(rest))

\* unicodedata.normalize("NFC", s): conjoining jamo L+V and LV+T compose
NFC(s) == NfcCompose(<<>>, s)

RECURSIVE LStrip(_)
LStrip(s) == IF s # <<>> /\ Head(s) \in Whitespace THEN LStrip(Tail(s)) ELSE s

RECURSIVE RStrip(_)
RStrip(s) ==
    IF s # <<>> /\ s[Len(s)] \in Whitespace
    THEN RStrip(SubSeq(s, 1, Len(s) - 1)) ELSE s

\* str.strip()
Strip(s) == RStrip(LStrip(s))

\* str.lower() of one character (U+0130 lowers to "i" + U+0307)
LowerChar(c) ==
    CASE c = "A" -> <<"a">>
      [] c = "B" -> <<"b">>
      [] c = "G" -> <<"g">>
      [] c = "J" -> <<"j">>
      [] c = "P" -> <<"p">>
      [] c = "I_DOT" -> <<"i", COMBINING_DOT>>
      [] OTHER -> <<c>>

RECURSIVE Lower(_)
Lower(s) == IF s = <<>> THEN <<>> ELSE LowerChar(Head(s)) \o Lower(Tail(s))

\* the characters _NORM_TEXT_PATTERN [^0-9a-z가-힣]+ does not match
NormChars == Digits \cup LatinLower \cup HangulSyllables

\* a bug: re.sub with count=1, only the first run of other characters goes
RECURSIVE SubFirstRun(_, _)
SubFirstRun(s, inRun) ==
    IF s = <<>> THEN <<>>
    ELSE IF Head(s) \notin NormChars THEN SubFirstRun(Tail(s), TRUE)
    ELSE IF inRun THEN s
    ELSE <<Head(s)>> \o SubFirstRun(Tail(s), FALSE)

NormSubOnce(s) == SubFirstRun(s, FALSE)

\* _NORM_TEXT_PATTERN.sub("", s)
NormSub(s) == SelectSeq(s, LAMBDA c : c \in NormChars)

\* a Python argument: None, or a str
NoneArg == [none |-> TRUE, text |-> <<>>]
Str(s) == [none |-> FALSE, text |-> s]

\* _norm_text(s)
_norm_text(a) ==
    LET s0 == IF a.none THEN <<>> ELSE a.text
    IN  NormSub(Lower(Strip(NFC(s0))))

(***************************************************************************)
(* _tokenize_address                                                       *)
(***************************************************************************)
RECURSIVE RunEnd(_, _, _)
\* the last index of the maximal run of characters of cls that starts at i
RunEnd(s, i, cls) ==
    IF i + 1 <= Len(s) /\ s[i + 1] \in cls THEN RunEnd(s, i + 1, cls) ELSE i

RECURSIVE FindAllFrom(_, _)
FindAllFrom(s, i) ==
    IF i > Len(s) THEN {}
    ELSE IF s[i] \in Digits
    THEN {Slice(s, i, RunEnd(s, i, Digits))}
             \cup FindAllFrom(s, RunEnd(s, i, Digits) + 1)
    ELSE IF s[i] \in HangulSyllables
    THEN {Slice(s, i, RunEnd(s, i, HangulSyllables))}
             \cup FindAllFrom(s, RunEnd(s, i, HangulSyllables) + 1)
    ELSE FindAllFrom(s, i + 1)

\* _ADDRESS_TOKEN_PATTERN.findall(s), as a set: [0-9]+|[가-힣]+
TokenFindAll(s) == FindAllFrom(s, 1)

MinTokenLen == 2

\* a bug: tokens of any length kept
_tokenize_address_all(a) ==
    IF _norm_text(a) = <<>> THEN {} ELSE TokenFindAll(_norm_text(a))

\* _tokenize_address(address)
_tokenize_address(a) ==
    LET normalized == _norm_text(a)
    IN  IF normalized = <<>> THEN {}
        ELSE {t \in TokenFindAll(normalized) : Len(t) >= MinTokenLen}

(***************************************************************************)
(* _address_candidates                                                     *)
(***************************************************************************)
GYEONGSANGBUKDO == <<"gyeong", "sang", "buk", "do">>
GYEONGBUK == <<"gyeong", "buk">>
ULLEUNGGUN == <<"ul", "leung", "gun">>
ULLEUNG == <<"ul", "leung">>

\* a bug: only the full normalized address is tried
_address_candidates_base(a) ==
    IF _norm_text(a) = <<>> THEN {} ELSE {_norm_text(a)}

\* _address_candidates(address): a Python set, its iteration order is not fixed
_address_candidates(a) ==
    LET base == _norm_text(a)
        keys == {base,
                 Replace(Replace(base, GYEONGSANGBUKDO), GYEONGBUK),
                 Replace(Replace(base, ULLEUNGGUN), ULLEUNG),
                 Replace(Replace(base, GYEONGSANGBUKDO), ULLEUNGGUN),
                 Replace(Replace(base, GYEONGBUK), ULLEUNG)}
    IN  IF base = <<>> THEN {} ELSE {k \in keys : k # <<>>}

(***************************************************************************)
(* Photo folders and the photo indices                                     *)
(***************************************************************************)
\* a path: the folder and the file name; None is "no photo"
None == [dir |-> "None", name |-> <<>>]
PathOf(dirName, name) == [dir |-> dirName, name |-> name]

RECURSIVE LastDotFrom(_, _)
LastDotFrom(name, i) ==
    IF i = 0 THEN 0 ELSE IF name[i] = "." THEN i ELSE LastDotFrom(name, i - 1)

\* pathlib: the suffix starts at the last dot, unless that dot is first or last
PathSuffix(name) ==
    LET i == LastDotFrom(name, Len(name))
    IN  IF 1 < i /\ i < Len(name) THEN SubSeq(name, i, Len(name)) ELSE <<>>

PathStem(name) ==
    LET i == LastDotFrom(name, Len(name))
    IN  IF 1 < i /\ i < Len(name) THEN SubSeq(name, 1, i - 1) ELSE name

\* exts = {".jpg", ".jpeg", ".png", ".webp"}
ImageExts ==
    {<<".", "j", "p", "g">>, <<".", "j", "p", "e", "g">>,
     <<".", "p", "n", "g">>, <<".", "w", "e", "b", "p">>}

\* a dict in insertion order: a sequence of [key, path] with distinct keys
IndexKeys(idx) == {idx[i].key : i \in DOMAIN idx}
IndexGet(idx, k) == idx[CHOOSE i \in DOMAIN idx : idx[i].key = k].path

\* a bug: a later file with the same key overwrites the entry
RECURSIVE IndexScanLastWins(_, _, _, _)
IndexScanLastWins(entries, i, dirName, idx) ==
    IF i > Len(entries) THEN idx
    ELSE LET p == entries[i]
             key == _norm_text(Str(PathStem(p.name)))
             item == [key |-> key, path |-> PathOf(dirName, p.name)]
         IN  IF ~p.is_file \/ Lower(PathSuffix(p.name)) \notin ImageExts
                \/ key = <<>>
             THEN IndexScanLastWins(entries, i + 1, dirName, idx)
             ELSE IF key \in IndexKeys(idx)
             THEN IndexScanLastWins(entries, i + 1, dirName,
                      [j \in DOMAIN idx |->
                          IF idx[j].key = key THEN item ELSE idx[j]])
             ELSE IndexScanLastWins(entries, i + 1, dirName, Append(idx, item))

\* a bug: the extension filter is missing
RECURSIVE IndexScanAnyExt(_, _, _, _)
IndexScanAnyExt(entries, i, dirName, idx) ==
    IF i > Len(entries) THEN idx
    ELSE LET p == entries[i]
             key == _norm_text(Str(PathStem(p.name)))
         IN  IF p.is_file /\ key # <<>> /\ key \notin IndexKeys(idx)
             THEN IndexScanAnyExt(entries, i + 1, dirName,
                      Append(idx, [key |-> key, path |-> PathOf(dirName, p.name)]))
             ELSE IndexScanAnyExt(entries, i + 1, dirName, idx)

\* the loop over dir.iterdir() of both index builders
RECURSIVE IndexScan(_, _, _, _)
IndexScan(entries, i, dirName, idx) ==
    IF i > Len(entries) THEN idx
    ELSE LET p == entries[i]
             key == _norm_text(Str(PathStem(p.name)))
         IN  IF ~p.is_file
             THEN IndexScan(entries, i + 1, dirName, idx)
             ELSE IF Lower(PathSuffix(p.name)) \notin ImageExts
             THEN IndexScan(entries, i + 1, dirName, idx)
             ELSE IF key # <<>> /\ key \notin IndexKeys(idx)
             THEN IndexScan(entries, i + 1, dirName,
                      Append(idx, [key |-> key, path |-> PathOf(dirName, p.name)]))
             ELSE IndexScan(entries, i + 1, dirName, idx)

\* _build_accident_photo_index(), uncached: exact and partial are one dict
_build_accident_photo_index(dir) ==
    IF ~dir.exists THEN <<>> ELSE IndexScan(dir.entries, 1, "acc_pic", <<>>)

\* _build_rockfall_photo_index(), uncached
_build_rockfall_photo_index(dir) ==
    IF ~dir.exists THEN <<>> ELSE IndexScan(dir.entries, 1, "rockfall", <<>>)

\* st.cache_data on a function without arguments: computed once, kept
NotBuilt == [built |-> FALSE, idx |-> <<>>]
CachedIndex(cache, fresh) ==
    IF cache.built THEN cache ELSE [built |-> TRUE, idx |-> fresh]

(***************************************************************************)
(* The photo finders. An outcome is the returned path together with the    *)
(* branch that returned it (tier) and the index key it belongs to.         *)
(***************************************************************************)
Miss == [path |-> None, tier |-> "none", key |-> <<>>]
Hit(item, tier) == [path |-> item.path, tier |-> tier, key |-> item.key]

MinScore == 2

\* a bug: one shared token is enough
RECURSIVE AccTokenScanAny(_, _, _, _, _)
AccTokenScanAny(idx, i, address_tokens, best_score, best) ==
    IF i > Len(idx) THEN best
    ELSE LET score == Cardinality(address_tokens
                                    \cap _tokenize_address(Str(idx[i].key)))
         IN  IF score >= 1 /\ score > best_score
             THEN AccTokenScanAny(idx, i + 1, address_tokens, score,
                                  Hit(idx[i], "token"))
             ELSE AccTokenScanAny(idx, i + 1, address_tokens, best_score, best)

\* _find_accident_photo_fast: the loop that keeps the best token overlap
RECURSIVE AccTokenScan(_, _, _, _, _)
AccTokenScan(idx, i, address_tokens, best_score, best) ==
    IF i > Len(idx) THEN best
    ELSE LET key_tokens == _tokenize_address(Str(idx[i].key))
             score == Cardinality(address_tokens \cap key_tokens)
         IN  IF key_tokens = {}
             THEN AccTokenScan(idx, i + 1, address_tokens, best_score, best)
             ELSE IF score >= MinScore /\ score > best_score
             THEN AccTokenScan(idx, i + 1, address_tokens, score,
                               Hit(idx[i], "token"))
             ELSE AccTokenScan(idx, i + 1, address_tokens, best_score, best)

\* a bug: the fallback loop keeps the last key that matches
RECURSIVE AccSubstringScanLast(_, _, _)
AccSubstringScanLast(idx, i, targets) ==
    IF i > Len(idx) THEN Miss
    ELSE LET later == AccSubstringScanLast(idx, i + 1, targets)
         IN  IF later # Miss THEN later
             ELSE IF \E t \in targets :
                        t # <<>> /\ (Contains(idx[i].key, t) \/ Contains(t, idx[i].key))
             THEN Hit(idx[i], "substring")
             ELSE Miss

\* _find_accident_photo_fast: the fallback loop when the address has no token
RECURSIVE AccSubstringScan(_, _, _)
AccSubstringScan(idx, i, targets) ==
    IF i > Len(idx) THEN Miss
    ELSE IF \E t \in targets :
                t # <<>> /\ (Contains(idx[i].key, t) \/ Contains(t, idx[i].key))
    THEN Hit(idx[i], "substring")
    ELSE AccSubstringScan(idx, i + 1, targets)

\* a bug: the token tier is tried before the exact tier
AccidentOutcomesTokenFirst(a, idx) ==
    LET byToken == AccTokenScan(idx, 1, _tokenize_address(a), 0, Miss)
        hits == _address_candidates(a) \cap IndexKeys(idx)
    IN  IF byToken.tier = "token" THEN {byToken}
        ELSE IF hits # {}
        THEN {[path |-> IndexGet(idx, t), tier |-> "exact", key |-> t] : t \in hits}
        ELSE {Miss}

\* _find_accident_photo_fast(address) once the index is at hand: every result
\* the call can give. "for t in targets" walks a set of str, whose order
\* changes with the process's hash seed, so any candidate that is an index
\* key can be the one that returns.
AccidentOutcomes(a, idx) ==
    LET targets == _address_candidates(a)
        hits == {t \in targets : t \in IndexKeys(idx)}
        address_tokens == _tokenize_address(a)
    IN  IF hits # {}
        THEN {[path |-> IndexGet(idx, t), tier |-> "exact", key |-> t] : t \in hits}
        ELSE IF address_tokens = {}
        THEN {AccSubstringScan(idx, 1, targets)}
        ELSE {AccTokenScan(idx, 1, address_tokens, 0, Miss)}

\* a bug: one shared token is enough
RECURSIVE RockTokenScanAny(_, _, _, _, _)
RockTokenScanAny(idx, i, target_tokens, best_score, best) ==
    IF i > Len(idx) THEN best
    ELSE LET score == Cardinality(target_tokens
                                    \cap _tokenize_address(Str(idx[i].key)))
         IN  IF score >= 1 /\ score > best_score
             THEN RockTokenScanAny(idx, i + 1, target_tokens, score,
                                   Hit(idx[i], "token"))
             ELSE RockTokenScanAny(idx, i + 1, target_tokens, best_score, best)

\* a bug: a later key with the same score replaces the best one
RECURSIVE RockTokenScanLastWins(_, _, _, _, _)
RockTokenScanLastWins(idx, i, target_tokens, best_score, best) ==
    IF i > Len(idx) THEN best
    ELSE LET score == Cardinality(target_tokens
                                    \cap _tokenize_address(Str(idx[i].key)))
         IN  IF score >= MinScore /\ score >= best_score
             THEN RockTokenScanLastWins(idx, i + 1, target_tokens, score,
                                        Hit(idx[i], "token"))
             ELSE RockTokenScanLastWins(idx, i + 1, target_tokens, best_score, best)

\* _find_rockfall_photo: the loop that keeps the best token overlap
RECURSIVE RockTokenScan(_, _, _, _, _)
RockTokenScan(idx, i, target_tokens, best_score, best) ==
    IF i > Len(idx) THEN best
    ELSE LET key_tokens == _tokenize_address(Str(idx[i].key))
             score == Cardinality(target_tokens \cap key_tokens)
         IN  IF key_tokens = {}
             THEN RockTokenScan(idx, i + 1, target_tokens, best_score, best)
             ELSE IF score >= MinScore /\ score > best_score
             THEN RockTokenScan(idx, i + 1, target_tokens, score,
                                Hit(idx[i], "token"))
             ELSE RockTokenScan(idx, i + 1, target_tokens, best_score, best)

\* _find_rockfall_photo: the fallback loop when the target has no token
RECURSIVE RockSubstringScan(_, _, _)
RockSubstringScan(idx, i, target) ==
    IF i > Len(idx) THEN Miss
    ELSE IF Contains(idx[i].key, target) \/ Contains(target, idx[i].key)
    THEN Hit(idx[i], "substring")
    ELSE RockSubstringScan(idx, i + 1, target)

\* the target of _find_rockfall_photo
RockTarget(a) == IF a.none THEN <<>> ELSE _norm_text(Str(a.text))

\* a bug: the token tier is tried before the exact tier
RockfallOutcomeTokenFirst(a, idx) ==
    LET target == RockTarget(a)
        byToken == RockTokenScan(idx, 1, _tokenize_address(Str(target)), 0, Miss)
    IN  IF byToken.tier = "token" THEN byToken
        ELSE IF target \in IndexKeys(idx)
        THEN [path |-> IndexGet(idx, target), tier |-> "exact", key |-> target]
        ELSE Miss

\* _find_rockfall_photo(address) once the index is at hand
RockfallOutcome(a, idx) ==
    LET target == RockTarget(a)
        target_tokens == _tokenize_address(Str(target))
    IN  IF target \in IndexKeys(idx)
        THEN [path |-> IndexGet(idx, target), tier |-> "exact", key |-> target]
        ELSE IF target_tokens = {}
        THEN RockSubstringScan(idx, 1, target)
        ELSE RockTokenScan(idx, 1, target_tokens, 0, Miss)

\* the early return on an address without candidate keys
Empty == [path |-> None, tier |-> "empty", key |-> <<>>]

\* a bug: the index is fetched before the address is looked at
FindAccidentEager(a, cache, dir) ==
    LET loaded == CachedIndex(cache, _build_accident_photo_index(dir))
    IN  IF _address_candidates(a) = {}
        THEN {[out |-> Empty, cache |-> loaded]}
        ELSE {[out |-> o, cache |-> loaded] : o \in AccidentOutcomes(a, loaded.idx)}

\* _find_accident_photo_fast(address): the results and the index cache after
_find_accident_photo_fast(a, cache, dir) ==
    IF _address_candidates(a) = {}
    THEN {[out |-> Empty, cache |-> cache]}
    ELSE LET loaded == CachedIndex(cache, _build_accident_photo_index(dir))
         IN  {[out |-> o, cache |-> loaded] : o \in AccidentOutcomes(a, loaded.idx)}

\* _find_rockfall_photo(address): the result and the index cache after
_find_rockfall_photo(a, cache, dir) ==
    IF RockTarget(a) = <<>>
    THEN [out |-> Empty, cache |-> cache]
    ELSE LET loaded == CachedIndex(cache, _build_rockfall_photo_index(dir))
         IN  [out |-> RockfallOutcome(a, loaded.idx), cache |-> loaded]

(***************************************************************************)
(* SMS notices: keyword tables (data_loaders.py)                           *)
(***************************************************************************)
HAEUN == <<"hae", "un">>
DOCHAKSIGAN == <<"do", "chak", "si", "gan">>
SP == <<" ">>

SMS_SHIP_KEYWORDS ==
    {<<"geum", "gwang">> \o HAEUN,
     <<"dae", "jeo">> \o HAEUN,
     <<"dae", "jeo">> \o HAEUN \o SP \o DOCHAKSIGAN,
     <<"h_e", "h_i", "chi">> \o HAEUN,
     <<"mi", "rae">> \o HAEUN,
     <<"h_u", "seong">> \o HAEUN,
     <<"ju", "sik", "hoe", "sa", "tae", "seong">> \o HAEUN,
     <<"tae", "seong">> \o HAEUN \o SP \o DOCHAKSIGAN,
     <<"han", "guk">> \o HAEUN}
SMS_SHIP_VESSEL_KEYWORDS ==
    {<<"geum", "gwang", "1", "1", "ho">>, <<"mi", "rae", "1", "5", "ho">>}
SMS_PEOPLE_KEYWORDS ==
    {<<"dae", "jeo", "pe", "ri">>,
     <<"sseon", "ra", "h_i", "jeu">> \o SP \o DOCHAKSIGAN,
     <<"ssi", "seu", "po", "bil">>,
     <<"ssi", "seu", "po", "bil">> \o SP \o DOCHAKSIGAN,
     <<"ul", "leung", "keu", "ru", "jeu">>,
     <<"je", "h_i", "h_e", "h_i", "chi", "pe", "ri">>,
     <<"je", "h_i", "h_e", "h_i", "chi", "pe", "ri">> \o SP \o DOCHAKSIGAN}
SMS_PEOPLE_VESSEL_KEYWORDS ==
    {<<"ssi", "seu", "ta", "1", "1", "ho">>,
     <<"ssi", "seu", "ta", "1", "ho">>,
     <<"ssi", "seu", "ta", "5", "ho">>,
     <<"nyu", "ssi", "da", "h_o", "peol", "ho">>,
     <<"nyu", "si", "da", "h_o", "peol", "ho">>,
     <<"sseon", "ra", "h_i", "jeu", "ho">>,
     <<"kwin", "seu", "ta", "2", "ho">>}
SMS_PASSENGER_KEYWORDS ==
    {<<"tab", "seung", "in", "won">>, <<"yeo", "gaek">>, <<"seung", "gaek">>,
     <<"seung", "seon">>, <<"keu", "ru", "jeu">>}
SMS_CARGO_KEYWORDS ==
    {<<"hwa", "mul">>, <<"cha", "ryang">>, <<"seon", "jeok">>,
     <<"taek", "bae">>, <<"mul", "ryu">>}

SMS_CANCEL_KEYWORDS ==
    {<<"gyeol", "hang">>, <<"chwi", "so">>,
     <<"chul", "hang", " ", "chwi", "so">>, <<"un", "hang", " ", "chwi", "so">>}
SMS_CONTROL_KEYWORDS ==
    {<<"un", "hang", " ", "tong", "je">>, <<"un", "hang", "tong", "je">>,
     <<"un", "hang", "h_i", " ", "tong", "je">>,
     <<"tong", "je", "doe", "eot", "seup", "ni", "da">>}
SMS_CHANGE_KEYWORDS ==
    {<<"si", "gan", " ", "byeon", "gyeong">>, <<"si", "gan", "byeon", "gyeong">>,
     <<"si", "gan", " ", "byeon", "gyeong", "doen">>,
     <<"si", "gan", "byeon", "gyeong", "doen">>}
SMS_ARRIVE_KEYWORDS ==
    {<<"ip", "hang">>, <<"ip", "hang", " ", "ye", "jeong">>,
     <<"ip", "hang", " ", "ye", "jeong", "si", "gan">>,
     <<"ip", "hang", "ip", "ni", "da">>,
     <<"do", "chak">>, DOCHAKSIGAN}
SMS_DEPART_KEYWORDS ==
    {<<"chul", "hang">>, <<"chul", "bal">>,
     <<"un", "hang", "ye", "jeong">>, <<"un", "hang", " ", "ye", "jeong">>,
     <<"jeong", "sang", "un", "hang">>, <<"un", "hang", "hab", "ni", "da">>,
     <<"chul", "hang", " ", "ye", "jeong">>, <<"jeong", "sang", "chul", "hang">>,
     <<"chul", "hang", "hab", "ni", "da">>, <<"chul", "bal", "hab", "ni", "da">>}
SHUTTLE == <<"syeo", "teul">>

POHANG == <<"po", "hang">>
POHANG_PORT == POHANG \o <<"(", "yeong", "il", "man", "hang", ")">>
ULLEUNG_PORT == ULLEUNG \o <<"(", "sa", "dong", "hang", ")">>
\* the alternatives of (→|->|➡|>)
ArrowTexts == {<<"ARROW">>, <<"-", ">">>, <<"ARROW2">>, <<">">>}

\* the categories and sub-groups, in the source's words
GYEOLHANG == "gyeolhang"              \* cancel
UNHANGTONGJE == "unhangtongje"        \* control
SIGANBYEONGYEONG == "siganbyeongyeong" \* time change
IPHANG == "iphang"                    \* arrival
CHULHANG == "chulhang"                \* departure
SEONBAK == "seonbak"                  \* vessel
SARAM == "saram"                      \* passenger
NoLabel == "None"

(***************************************************************************)
(* Regular expressions of the classifier, as searches over a message      *)
(***************************************************************************)
\* any(k in msg for k in keywords), and str.contains("|".join(keywords))
ContainsAny(msg, keywords) == \E k \in keywords : Contains(msg, k)

\* msg[i..j] has no line break: "." does not match one
NoNewline(msg, i, j) == \A k \in i..j : msg[k] # "NL"
\* msg[i..j] is whitespace only: \s*
AllSpace(msg, i, j) == \A k \in i..j : msg[k] \in Whitespace

\* the starts of the matches of  from.*?(arrows).*?to
RouteStarts(msg, from, arrows, to) ==
    {i \in 1..Len(msg) :
        /\ MatchesAt(msg, from, i)
        /\ \E a \in arrows : \E j \in (i + Len(from))..Len(msg) :
              /\ MatchesAt(msg, a, j)
              /\ NoNewline(msg, i + Len(from), j - 1)
              /\ \E k \in (j + Len(a))..Len(msg) :
                    /\ MatchesAt(msg, to, k)
                    /\ NoNewline(msg, j + Len(a), k - 1)}

\* SMS_ARRIVE_ROUTE_PATTERNS and SMS_DEPART_ROUTE_PATTERNS: per pattern, the
\* match starts
ArriveRouteStarts(msg) ==
    {RouteStarts(msg, POHANG, ArrowTexts, ULLEUNG),
     RouteStarts(msg, POHANG_PORT, {<<"ARROW">>}, ULLEUNG_PORT)}
DepartRouteStarts(msg) ==
    {RouteStarts(msg, ULLEUNG, ArrowTexts, POHANG),
     RouteStarts(msg, ULLEUNG_PORT, {<<"ARROW">>}, POHANG_PORT)}

Min(S) == CHOOSE x \in S : \A y \in S : x <= y
NoPos == 0
\* the loop over the patterns: the least m.start() of re.search, or None
RoutePos(startSets) ==
    IF UNION startSets = {} THEN NoPos ELSE Min(UNION startSets)

\* an optional quote at q: where the match may go on
AfterQuote(msg, q) ==
    IF q <= Len(msg) /\ msg[q] \in Quotes THEN {q, q + 1} ELSE {q}

\* re.search of  ["']?\s*Pohang\s*["']?\s*(?:→|->|➡|>)\s*Ulleung
PohangDirect(msg) ==
    \E i \in 1..Len(msg) :
        /\ MatchesAt(msg, POHANG, i)
        /\ \E q \in (i + Len(POHANG))..(Len(msg) + 1) :
              /\ AllSpace(msg, i + Len(POHANG), q - 1)
              /\ \E q2 \in AfterQuote(msg, q) :
                    \E j \in q2..Len(msg) : \E a \in ArrowTexts :
                        /\ AllSpace(msg, q2, j - 1)
                        /\ MatchesAt(msg, a, j)
                        /\ \E k \in (j + Len(a))..Len(msg) :
                              /\ AllSpace(msg, j + Len(a), k - 1)
                              /\ MatchesAt(msg, ULLEUNG, k)

(***************************************************************************)
(* The classifiers                                                         *)
(***************************************************************************)
\* a bug: when both directions match, arrival whatever the positions
ClassifyDirectionArriveWins(msg) ==
    LET arrive_pos == RoutePos(ArriveRouteStarts(msg))
        depart_pos == RoutePos(DepartRouteStarts(msg))
        has_arrive == ContainsAny(msg, SMS_ARRIVE_KEYWORDS)
        has_depart == ContainsAny(msg, SMS_DEPART_KEYWORDS)
    IN  IF arrive_pos # NoPos THEN IPHANG
        ELSE IF depart_pos # NoPos THEN CHULHANG
        ELSE IF has_arrive /\ ~has_depart THEN IPHANG
        ELSE IF has_depart /\ ~has_arrive THEN CHULHANG
        ELSE NoLabel

\* the tail of classify: route patterns by position, then plain keywords
ClassifyDirection(msg) ==
    LET arrive_pos == RoutePos(ArriveRouteStarts(msg))
        depart_pos == RoutePos(DepartRouteStarts(msg))
        has_arrive == ContainsAny(msg, SMS_ARRIVE_KEYWORDS)
        has_depart == ContainsAny(msg, SMS_DEPART_KEYWORDS)
    IN  IF arrive_pos # NoPos /\ depart_pos # NoPos
        THEN (IF depart_pos < arrive_pos THEN CHULHANG ELSE IPHANG)
        ELSE IF depart_pos # NoPos THEN CHULHANG
        ELSE IF arrive_pos # NoPos THEN IPHANG
        ELSE IF has_arrive /\ ~has_depart THEN IPHANG
        ELSE IF has_depart /\ ~has_arrive THEN CHULHANG
        ELSE NoLabel

\* a bug: the arrival keywords are tested before the cancellation keywords
classify_arrive_first(msg) ==
    IF msg = <<>> THEN NoLabel
    ELSE IF ContainsAny(msg, SMS_ARRIVE_KEYWORDS) THEN IPHANG
    ELSE IF ContainsAny(msg, SMS_CANCEL_KEYWORDS) THEN GYEOLHANG
    ELSE IF ContainsAny(msg, SMS_CONTROL_KEYWORDS) THEN UNHANGTONGJE
    ELSE IF ContainsAny(msg, SMS_CHANGE_KEYWORDS) THEN SIGANBYEONGYEONG
    ELSE IF PohangDirect(msg) THEN IPHANG
    ELSE ClassifyDirection(msg)

\* classify(msg) inside _summarize_sms_notice_counts
classify(msg) ==
    IF msg = <<>> THEN NoLabel
    ELSE IF ContainsAny(msg, SMS_CANCEL_KEYWORDS) THEN GYEOLHANG
    ELSE IF ContainsAny(msg, SMS_CONTROL_KEYWORDS) THEN UNHANGTONGJE
    ELSE IF ContainsAny(msg, SMS_CHANGE_KEYWORDS) THEN SIGANBYEONGYEONG
    ELSE IF PohangDirect(msg) THEN IPHANG
    ELSE ClassifyDirection(msg)

\* classify(msg) inside _latest_sea_notice: the same text a second time
classify_latest(msg) ==
    IF msg = <<>> THEN NoLabel
    ELSE IF ContainsAny(msg, SMS_CANCEL_KEYWORDS) THEN GYEOLHANG
    ELSE IF ContainsAny(msg, SMS_CONTROL_KEYWORDS) THEN UNHANGTONGJE
    ELSE IF ContainsAny(msg, SMS_CHANGE_KEYWORDS) THEN SIGANBYEONGYEONG
    ELSE IF PohangDirect(msg) THEN IPHANG
    ELSE ClassifyDirection(msg)

\* the masks of _summarize_sms_notice_counts_window: a label is set only
\* where none is set yet
WindowLabel(msg) ==
    IF ContainsAny(msg, SMS_CANCEL_KEYWORDS) THEN GYEOLHANG
    ELSE IF ContainsAny(msg, SMS_CONTROL_KEYWORDS) THEN UNHANGTONGJE
    ELSE IF ContainsAny(msg, SMS_CHANGE_KEYWORDS) THEN SIGANBYEONGYEONG
    ELSE IF PohangDirect(msg) THEN IPHANG
    ELSE IF ContainsAny(msg, SMS_ARRIVE_KEYWORDS) THEN IPHANG
    ELSE IF ContainsAny(msg, SMS_DEPART_KEYWORDS) THEN CHULHANG
    ELSE NoLabel

\* the masks of _latest_sea_event: the pattern sets the label outright, the
\* keyword loops set it where none is set yet
EventLabel(msg) ==
    IF PohangDirect(msg) THEN IPHANG
    ELSE IF ContainsAny(msg, SMS_ARRIVE_KEYWORDS) THEN IPHANG
    ELSE IF ContainsAny(msg, SMS_DEPART_KEYWORDS) THEN CHULHANG
    ELSE NoLabel

\* a bug: the vessel names are missing from the vessel group
ship_keywords_companies == SMS_SHIP_KEYWORDS \cup SMS_CARGO_KEYWORDS

\* the group masks of both summaries: vessel first, passenger where unset
ship_keywords == SMS_SHIP_KEYWORDS \cup SMS_SHIP_VESSEL_KEYWORDS \cup SMS_CARGO_KEYWORDS
people_keywords ==
    SMS_PEOPLE_KEYWORDS \cup SMS_PEOPLE_VESSEL_KEYWORDS \cup SMS_PASSENGER_KEYWORDS
\* a bug: the passenger mask is applied first
GroupOfPeopleFirst(msg) ==
    IF ContainsAny(msg, people_keywords) THEN SARAM
    ELSE IF ContainsAny(msg, ship_keywords) THEN SEONBAK
    ELSE NoLabel

GroupOf(msg) ==
    IF ContainsAny(msg, ship_keywords) THEN SEONBAK
    ELSE IF ContainsAny(msg, people_keywords) THEN SARAM
    ELSE NoLabel

(***************************************************************************)
(* The SMS table and the operations over it. A row is [ts, msg]: ts is     *)
(* [year, day, slot], day counting days across years and slot the time of  *)
(* day; msg is a str, or None for a missing cell (NaN).                    *)
(***************************************************************************)
YEAR == 2025
WINDOW_DAYS == 30

TsLeq(a, b) == a.day < b.day \/ (a.day = b.day /\ a.slot <= b.slot)
\* end_dt - Timedelta(days=days - 1)
WindowStart(end_dt) == [end_dt EXCEPT !.day = end_dt.day - (WINDOW_DAYS - 1)]

\* .astype(str) of a cell: NaN becomes "nan"
AsTypeStr(a) == IF a.none THEN <<"n", "a", "n">> ELSE a.text
\* .fillna("").astype(str) of a cell
FillNaStr(a) == IF a.none THEN <<>> ELSE a.text

Labelled(row, text, label, group) ==
    [ts |-> row.ts, text |-> text, label |-> label, group |-> group]
\* df[mask] and df.apply over the rows of a table
Filter(rows, Keep(_)) == SelectSeq(rows, Keep)
Map(rows, F(_)) == [i \in DOMAIN rows |-> F(rows[i])]
CountRows(rows, P(_)) == Cardinality({i \in DOMAIN rows : P(rows[i])})
\* len(df.drop_duplicates(subset=["day", ...])) over the rows that satisfy P
CountDays(rows, P(_)) == Cardinality({rows[i].ts.day : i \in {j \in DOMAIN rows : P(rows[j])}})

NoShuttle(r) == ~Contains(r.text, SHUTTLE)
HasLabel(r) == r.label # NoLabel
IsArrivalDeparture(r) == r.label \in {IPHANG, CHULHANG}

\* a bug: the group masks run over every labelled row
WithGroupAll(r) == [r EXCEPT !.group = GroupOf(r.text)]

\* the group column exists for the arrival and departure rows only
WithGroup(r) ==
    [r EXCEPT !.group = IF IsArrivalDeparture(r) THEN GroupOf(r.text) ELSE NoLabel]

ZeroCounts ==
    [l \in {IPHANG, CHULHANG, UNHANGTONGJE, GYEOLHANG, SIGANBYEONGYEONG} |-> 0]
ZeroBreakdown == [l \in {IPHANG, CHULHANG} |-> [g \in {SEONBAK, SARAM} |-> 0]]

\* a bug: the three categories are counted per message, not per day
CountsOfNoDedup(work, breakdown) ==
    [l \in DOMAIN ZeroCounts |->
        IF l \in {IPHANG, CHULHANG}
        THEN breakdown[l][SEONBAK] + breakdown[l][SARAM]
        ELSE CountRows(work, LAMBDA r : r.label = l)]

\* counts of the three deduplicated categories, then arrival and departure as
\* the sums of their breakdown
CountsOf(work, breakdown) ==
    [l \in DOMAIN ZeroCounts |->
        IF l \in {IPHANG, CHULHANG}
        THEN breakdown[l][SEONBAK] + breakdown[l][SARAM]
        ELSE CountDays(work, LAMBDA r : r.label = l)]

Summary(work, breakdown) ==
    [work |-> work, breakdown |-> breakdown, counts |-> CountsOf(work, breakdown),
     total |-> LET c == CountsOf(work, breakdown)
               IN  c[IPHANG] + c[CHULHANG] + c[UNHANGTONGJE] + c[GYEOLHANG]
                       + c[SIGANBYEONGYEONG]]

\* a bug: the shuttle filter is left out
SummarizeYearlyKeepShuttle(df, year) ==
    LET inYear == Filter(df, LAMBDA row : row.ts.year = year)
        texts == Map(inYear, LAMBDA row :
                     Labelled(row, Strip(AsTypeStr(row.msg)), NoLabel, NoLabel))
        labelled == Map(texts, LAMBDA r : [r EXCEPT !.label = classify(r.text)])
        work == Map(Filter(labelled, HasLabel), WithGroup)
    IN  Summary(work,
            [l \in {IPHANG, CHULHANG} |-> [g \in {SEONBAK, SARAM} |->
                CountRows(work, LAMBDA r : r.label = l /\ r.group = g)]])

\* _summarize_sms_notice_counts(df, year)
_summarize_sms_notice_counts(df, year) ==
    LET inYear == Filter(df, LAMBDA row : row.ts.year = year)
        texts == Map(inYear, LAMBDA row :
                     Labelled(row, Strip(AsTypeStr(row.msg)), NoLabel, NoLabel))
        kept == Filter(texts, NoShuttle)
        labelled == Map(kept, LAMBDA r : [r EXCEPT !.label = classify(r.text)])
        work == Map(Filter(labelled, HasLabel), WithGroup)
        breakdown ==
            [l \in {IPHANG, CHULHANG} |-> [g \in {SEONBAK, SARAM} |->
                CountRows(work, LAMBDA r : r.label = l /\ r.group = g)]]
    IN  IF df = <<>> THEN Summary(<<>>, ZeroBreakdown)
        ELSE Summary(work, breakdown)

\* _summarize_sms_notice_counts_window(df, start_dt, end_dt); NoWindow stands
\* for start_dt or end_dt being None
NoWindow == [year |-> 0, day |-> 0, slot |-> 0]
_summarize_sms_notice_counts_window(df, start_dt, end_dt) ==
    LET inWindow == Filter(df, LAMBDA row :
                        TsLeq(start_dt, row.ts) /\ TsLeq(row.ts, end_dt))
        texts == Map(inWindow, LAMBDA row :
                     Labelled(row, Strip(AsTypeStr(row.msg)), NoLabel, NoLabel))
        kept == Filter(texts, NoShuttle)
        labelled == Map(kept, LAMBDA r : [r EXCEPT !.label = WindowLabel(r.text)])
        work == Map(Filter(labelled, HasLabel), WithGroup)
        breakdown ==
            [l \in {IPHANG, CHULHANG} |-> [g \in {SEONBAK, SARAM} |->
                CountDays(work, LAMBDA r : r.label = l /\ r.group = g)]]
    IN  IF df = <<>> \/ start_dt = NoWindow \/ end_dt = NoWindow
        THEN Summary(<<>>, ZeroBreakdown)
        ELSE Summary(work, breakdown)

\* sort_values("sms_resDate", ascending=False).iloc[0]: a row with the latest
\* time stamp; among equal stamps the sort decides
LatestRows(rows) ==
    {rows[i] : i \in {j \in DOMAIN rows :
                        \A k \in DOMAIN rows : TsLeq(rows[k].ts, rows[j].ts)}}

NoRow == [ts |-> NoWindow, text |-> <<>>, label |-> NoLabel, group |-> NoLabel]
\* ("입항", "최신 공지 없음") and {"datetime": None, ...}
NoNotice == [found |-> FALSE, label |-> IPHANG, row |-> NoRow, work |-> <<>>]
NoEvent == [found |-> FALSE, label |-> NoLabel, row |-> NoRow, work |-> <<>>]

\* _latest_sea_notice(df, year): every result the call can give
_latest_sea_notice(df, year) ==
    LET inYear == Filter(df, LAMBDA row : row.ts.year = year)
        texts == Map(inYear, LAMBDA row :
                     Labelled(row, Strip(AsTypeStr(row.msg)), NoLabel, NoLabel))
        kept == Filter(Filter(texts, LAMBDA r : r.text # <<>>), NoShuttle)
        labelled == Map(kept, LAMBDA r : [r EXCEPT !.label = classify_latest(r.text)])
        work == Filter(labelled, HasLabel)
    IN  IF df = <<>> \/ inYear = <<>> \/ work = <<>> THEN {NoNotice}
        ELSE {[found |-> TRUE, label |-> r.label, row |-> r, work |-> work] :
                 r \in LatestRows(work)}

\* _latest_sea_event(df, year, kind): every result the call can give
_latest_sea_event(df, year, kind) ==
    LET inYear == Filter(df, LAMBDA row : row.ts.year = year)
        texts == Map(inYear, LAMBDA row :
                     Labelled(row, Strip(FillNaStr(row.msg)), NoLabel, NoLabel))
        kept == Filter(Filter(texts, NoShuttle), LAMBDA r : r.text # <<>>)
        work == Map(kept, LAMBDA r : [r EXCEPT !.label = EventLabel(r.text)])
        filtered == Filter(work, LAMBDA r : r.label = kind)
    IN  IF df = <<>> \/ inYear = <<>> \/ kept = <<>> \/ filtered = <<>>
        THEN {NoEvent}
        ELSE {[found |-> TRUE, label |-> kind, row |-> r, work |-> work] :
                 r \in LatestRows(filtered)}

\* app.py: the window ends at the latest SMS date and is WINDOW_DAYS long
SmsEnd(df) ==
    IF df = <<>> THEN NoWindow
    ELSE df[CHOOSE j \in DOMAIN df : \A k \in DOMAIN df : TsLeq(df[k].ts, df[j].ts)].ts

(***************************************************************************)
(* Bus routes (data_loaders.py). The stop table df is a sequence of rows   *)
(* [stop_name, lat, lon]; a route of the result is [id, name, points], a   *)
(* stop is [key, name, lat, lon, routes].                                  *)
(***************************************************************************)
DODONG == <<"ul", "leung", "gun", "do", "dong", "jeong", "ryu", "so">>
SADONGHANG == <<"sa", "dong", "hang">>
NAMYANG == <<"nam", "yang">>
TAEHA == <<"tae", "ha">>
TAEHA3 == <<"tae", "ha", "sam", "geo", "ri">>
HYEONPO == <<"hyeon", "po">>
CHEONBU == <<"cheon", "bu", "jeong", "ryu", "jang">>
GWANEUMDO == <<"gwan", "eum", "do">>
JEODONG == <<"jeo", "dong">>
JEODONG_TERMINAL == JEODONG \o <<"yeo", "gaek", "seon", "teo", "mi", "neol">>
JEODONG_PHARMACY == JEODONG \o <<"yak", "guk">>
BONGNAE == <<"bong", "rae", "pok", "po">>
NARI == <<"na", "ri">>
SEOKPO == <<"seok", "po", "jeon", "mang", "dae", "ip", "gu">>

\* _bus_route_defs(): id, name and stops of every route (the name stands for
\* the display name, the colour is left out)
_bus_route_defs ==
    <<[id |-> "1", name |-> "route 1",
       stops |-> <<DODONG, SADONGHANG, NAMYANG, TAEHA3, HYEONPO, CHEONBU,
                   GWANEUMDO, JEODONG_TERMINAL, DODONG>>],
      [id |-> "2", name |-> "route 2",
       stops |-> <<DODONG, JEODONG_TERMINAL, GWANEUMDO, CHEONBU, HYEONPO,
                   TAEHA3, NAMYANG, SADONGHANG, DODONG>>],
      [id |-> "3", name |-> "route 3",
       stops |-> <<DODONG, JEODONG, BONGNAE, JEODONG, DODONG>>],
      [id |-> "4", name |-> "route 4", stops |-> <<CHEONBU, NARI, CHEONBU>>],
      [id |-> "5", name |-> "route 5",
       stops |-> <<SADONGHANG, DODONG, JEODONG_TERMINAL, GWANEUMDO, SEOKPO>>],
      [id |-> "11", name |-> "route 11",
       stops |-> <<CHEONBU, GWANEUMDO, JEODONG_PHARMACY, DODONG, SADONGHANG,
                   NAMYANG, TAEHA, HYEONPO, CHEONBU>>],
      [id |-> "22", name |-> "route 22",
       stops |-> <<CHEONBU, HYEONPO, TAEHA, NAMYANG, SADONGHANG, DODONG,
                   JEODONG_TERMINAL, GWANEUMDO, CHEONBU>>]>>
loop_routes == {"1", "2", "5", "11", "22"}

stop_norm(row) == _norm_text(Str(row.stop_name))
NoMatch == [found |-> FALSE, lat |-> 0, lon |-> 0]
Matched(row) == [found |-> TRUE, lat |-> row.lat, lon |-> row.lon]

\* _match_bus_stop(df, name): the exact name, else the first stop whose name
\* contains it, else the first stop whose name it contains
_match_bus_stop(df, name) ==
    LET target == _norm_text(Str(name))
        exact == {i \in DOMAIN df : stop_norm(df[i]) = target}
        within == {i \in DOMAIN df : Contains(stop_norm(df[i]), target)}
        around == {i \in DOMAIN df :
                      stop_norm(df[i]) # <<>> /\ Contains(target, stop_norm(df[i]))}
    IN  IF df = <<>> \/ target = <<>> THEN NoMatch
        ELSE IF exact # {} THEN Matched(df[Min(exact)])
        ELSE IF within # {} THEN Matched(df[Min(within)])
        ELSE IF around # {} THEN Matched(df[Min(around)])
        ELSE NoMatch

RECURSIVE SumOver(_, _, _)
SumOver(df, F(_), i) == IF i > Len(df) THEN 0 ELSE F(df[i]) + SumOver(df, F, i + 1)
Abs(x) == IF x < 0 THEN 0 - x ELSE x

\* the stop seen from the centre (the mean of the table), scaled by the
\* number of rows: the vector whose arctan2 is the sort key
FromCentre(df, row) ==
    [x |-> Len(df) * row.lon - SumOver(df, LAMBDA r : r.lon, 1),
     y |-> Len(df) * row.lat - SumOver(df, LAMBDA r : r.lat, 1)]
\* where arctan2(y, x) lies in (-pi, pi]: below the axis, 0, above, pi
Zone(v) ==
    IF v.y < 0 THEN 1 ELSE IF v.y > 0 THEN 3 ELSE IF v.x >= 0 THEN 2 ELSE 4
\* arctan2 of a is less than arctan2 of b
AngleLess(a, b) ==
    \/ Zone(a) < Zone(b)
    \/ Zone(a) = Zone(b) /\ Zone(a) \in {1, 3} /\ a.x * b.y - a.y * b.x > 0

\* sort_values("ang"): the orders of the rows by angle; the sort is not
\* stable, rows of equal angle come in any order
SortedOrders(df) ==
    {p \in [DOMAIN df -> DOMAIN df] :
        /\ \A i, j \in DOMAIN df : p[i] = p[j] => i = j
        /\ \A i, j \in DOMAIN df :
              i < j => ~AngleLess(FromCentre(df, df[p[j]]), FromCentre(df, df[p[i]]))}

\* the polyline of a loop route: every stop of the table by angle, rotated
\* to start at the stop nearest (Manhattan) to the route's first stop
LoopPoints(df, p, route) ==
    LET n == Len(df)
        df_sorted == [k \in DOMAIN df |-> df[p[k]]]
        anchor_match == _match_bus_stop(df, route.stops[1])
        distance(k) == Abs(df_sorted[k].lat - anchor_match.lat)
                           + Abs(df_sorted[k].lon - anchor_match.lon)
        start_idx ==
            IF anchor_match.found
            THEN Min({k \in DOMAIN df : \A m \in DOMAIN df : distance(k) <= distance(m)})
            ELSE 1
    IN  [k \in DOMAIN df |->
            LET r == df_sorted[((start_idx - 1 + k - 1) % n) + 1]
            IN  <<r.lat, r.lon>>]

\* stop_map: a dict in insertion order, a sequence of stops with distinct keys
StopKeys(stop_map) == {stop_map[i].key : i \in DOMAIN stop_map}
StopPut(stop_map, stop) ==
    IF stop.key \in StopKeys(stop_map)
    THEN [i \in DOMAIN stop_map |->
             IF stop_map[i].key = stop.key THEN stop ELSE stop_map[i]]
    ELSE Append(stop_map, stop)
StopAddRoute(stop_map, keys, name) ==
    [i \in DOMAIN stop_map |->
        IF stop_map[i].key \in keys
        THEN [stop_map[i] EXCEPT !.routes = Append(@, name)]
        ELSE stop_map[i]]

\* the first loop of build_bus_routes: every row of the table is a stop
RECURSIVE TableStops(_, _, _)
TableStops(df, i, stop_map) ==
    IF i > Len(df) THEN stop_map
    ELSE TableStops(df, i + 1,
             StopPut(stop_map, [key |-> stop_norm(df[i]), name |-> df[i].stop_name,
                                lat |-> df[i].lat, lon |-> df[i].lon, routes |-> <<>>]))

\* the loop over route["stops"] of a route that is not a loop route
RECURSIVE WalkStops(_, _, _, _, _)
WalkStops(df, route, i, pts, stop_map) ==
    IF i > Len(route.stops) THEN [pts |-> pts, stop_map |-> stop_map]
    ELSE LET stop_name == route.stops[i]
             match == _match_bus_stop(df, stop_name)
             key == _norm_text(Str(stop_name))
             known == IF key \in StopKeys(stop_map) THEN stop_map
                      ELSE Append(stop_map,
                               [key |-> key, name |-> stop_name, lat |-> match.lat,
                                lon |-> match.lon, routes |-> <<>>])
         IN  IF match.found
             THEN WalkStops(df, route, i + 1, Append(pts, <<match.lat, match.lon>>),
                      StopAddRoute(known, {key}, route.name))
             ELSE WalkStops(df, route, i + 1, pts, stop_map)

\* the loop over _bus_route_defs()
RECURSIVE BuildRoutes(_, _, _, _, _)
BuildRoutes(df, p, i, routes, stop_map) ==
    IF i > Len(_bus_route_defs) THEN [routes |-> routes, stops |-> stop_map]
    ELSE LET route == _bus_route_defs[i]
             walked == WalkStops(df, route, 1, <<>>, stop_map)
         IN  IF route.id \in loop_routes /\ df # <<>>
             THEN BuildRoutes(df, p, i + 1,
                      Append(routes, [id |-> route.id, name |-> route.name,
                                      points |-> LoopPoints(df, p, route)]),
                      StopAddRoute(stop_map, StopKeys(stop_map), route.name))
             ELSE BuildRoutes(df, p, i + 1,
                      Append(routes, [id |-> route.id, name |-> route.name,
                                      points |-> walked.pts]),
                      walked.stop_map)

\* build_bus_routes(): every result the call can give over the table df
build_bus_routes(df) ==
    {BuildRoutes(df, p, 1, <<>>, TableStops(df, 1, <<>>)) : p \in SortedOrders(df)}

(***************************************************************************)
(* optimize_images.py. A folder is a function from the names of its files  *)
(* to their contents; a content is [photo, passes]: which picture it is    *)
(* and how many times it went through optimize_image. Path.rename          *)
(* replaces an existing target, as on POSIX.                               *)
(***************************************************************************)
image_extensions ==
    ImageExts \cup {<<".", "b", "m", "p">>, <<".", "g", "i", "f">>}
IsImage(name) == Lower(PathSuffix(name)) \in image_extensions
\* img_file.with_suffix(suffix)
WithSuffix(name, suffix) == PathStem(name) \o suffix
\* the suffix of temp_output: "_temp_" + name, or that with suffix ".jpg"
TempSuffix(name) ==
    IF Lower(PathSuffix(name)) \notin ImageExts THEN <<".", "j", "p", "g">>
    ELSE PathSuffix(name)
\* final_output
FinalOutput(name) ==
    IF TempSuffix(name) # PathSuffix(name) THEN WithSuffix(name, TempSuffix(name))
    ELSE name

FilePut(f, k, v) == [x \in DOMAIN f \cup {k} |-> IF x = k THEN v ELSE f[x]]
FileDrop(f, k) == [x \in DOMAIN f \ {k} |-> f[x]]
Optimized(c) == [c EXCEPT !.passes = @ + 1]

\* the loop over image_files: back up where the backup has no file of that
\* name, optimize into the temporary file, and on success unlink the file
\* and rename the temporary file to final_output
RECURSIVE OptimizeFiles(_, _, _, _, _)
OptimizeFiles(image_files, i, folder, backup, failing) ==
    IF i > Len(image_files) THEN [folder |-> folder, backup |-> backup]
    ELSE LET img_file == image_files[i]
             saved == IF img_file \in DOMAIN backup THEN backup
                      ELSE FilePut(backup, img_file, folder[img_file])
         IN  IF img_file \in failing
             THEN OptimizeFiles(image_files, i + 1, folder, saved, failing)
             ELSE OptimizeFiles(image_files, i + 1,
                      FilePut(FileDrop(folder, img_file), FinalOutput(img_file),
                              Optimized(folder[img_file])),
                      saved, failing)

\* optimize_folder(folder, backup=True): every result of a run; image_files
\* is in iterdir() order, and optimize_image fails on the files in failing
optimize_folder(folder, backup) ==
    LET images == {n \in DOMAIN folder : IsImage(n)}
        orders == {o \in [1..Cardinality(images) -> images] :
                      \A i, j \in DOMAIN o : o[i] = o[j] => i = j}
    IN  {[folder |-> r.folder, backup |-> [exists |-> TRUE, files |-> r.backup]] :
            r \in {OptimizeFiles(o, 1, folder, backup.files, failing) :
                      o \in orders, failing \in SUBSET images}}

(***************************************************************************)
(* app.py: the selection fields of st.session_state and the handlers that  *)
(* write them. A field holds NoValue (None) or Some(x).                    *)
(***************************************************************************)
NoValue == <<>>
Some(x) == <<x>>

\* the session state init block: every selection field None
SessionInit ==
    [selected_acc_meta |-> NoValue, selected_acc_photo_path |-> NoValue,
     selected_acc_year |-> NoValue, selected_acc_idx |-> NoValue,
     selected_acc_label |-> NoValue, selected_acc_center |-> NoValue,
     selected_rockfall_meta |-> NoValue, selected_rockfall_photo_path |-> NoValue,
     selected_rock_label |-> NoValue, selected_rock_center |-> NoValue,
     selected_rock_idx |-> NoValue, selected_bus_meta |-> NoValue,
     view_mode |-> "list", rock_view_mode |-> "list"]

\* _set_selected_accident(df_acc, idx)
_set_selected_accident(ss, df_acc, idx) ==
    IF \A r \in df_acc : r.idx # idx THEN ss
    ELSE LET row == CHOOSE r \in df_acc : r.idx = idx
         IN  [ss EXCEPT !.selected_acc_meta = Some(<<"accident", row.idx>>),
                        !.selected_acc_photo_path = row.photo,
                        !.selected_acc_year = Some(row.year),
                        !.selected_acc_label = Some(row.label),
                        !.selected_rockfall_meta = NoValue,
                        !.selected_rockfall_photo_path = NoValue,
                        !.selected_rock_label = NoValue,
                        !.selected_rock_center = NoValue,
                        !.selected_bus_meta = NoValue]

\* the button of a row of the accident list
accident_list_button(ss, df_acc, row) ==
    LET set == _set_selected_accident(ss, df_acc, row.idx)
    IN  [set EXCEPT !.selected_acc_center =
                        IF row.coords # NoValue THEN row.coords ELSE @,
                    !.selected_acc_idx = Some(row.idx),
                    !.view_mode = "map"]

\* a click on the accident map within 100 m of the marker of row
accident_map_click(ss, df_acc, row) ==
    LET cleared == [ss EXCEPT !.selected_rockfall_meta = NoValue,
                              !.selected_rockfall_photo_path = NoValue,
                              !.selected_bus_meta = NoValue]
        set == _set_selected_accident(cleared, df_acc, row.idx)
    IN  [set EXCEPT !.selected_acc_idx = Some(row.idx),
                    !.selected_acc_center = row.coords]

\* the button of an item of the rockfall list
rockfall_list_button(ss, item) ==
    [ss EXCEPT !.selected_acc_meta = NoValue,
               !.selected_acc_photo_path = NoValue,
               !.selected_acc_label = NoValue,
               !.selected_acc_center = NoValue,
               !.selected_bus_meta = NoValue,
               !.selected_rock_idx = Some(item.idx),
               !.selected_rockfall_meta = Some(<<"rockfall", item.idx>>),
               !.selected_rockfall_photo_path = item.photo,
               !.selected_rock_label = Some(item.name),
               !.selected_rock_center =
                   IF item.coords # NoValue THEN item.coords ELSE @,
               !.rock_view_mode = "map"]

\* a click on the rockfall map within 100 m of the marker of item
rockfall_map_click(ss, item) ==
    [ss EXCEPT !.selected_acc_meta = NoValue,
               !.selected_acc_photo_path = NoValue,
               !.selected_acc_year = NoValue,
               !.selected_acc_label = NoValue,
               !.selected_acc_center = NoValue,
               !.selected_bus_meta = NoValue,
               !.selected_rock_idx = Some(item.idx),
               !.selected_rockfall_meta = Some(<<"rockfall", item.idx>>),
               !.selected_rockfall_photo_path = item.photo,
               !.selected_rock_label = Some(item.name),
               !.selected_rock_center = item.coords]

\* a bug: the accident selection is kept
bus_stop_click_keep(ss, stop) ==
    [ss EXCEPT !.selected_rockfall_meta = NoValue,
               !.selected_rockfall_photo_path = NoValue,
               !.selected_bus_meta = Some(<<"bus", stop.name>>)]

\* a click on the bus map within 100 m of the marker of stop
bus_stop_click(ss, stop) ==
    [ss EXCEPT !.selected_acc_meta = NoValue,
               !.selected_acc_photo_path = NoValue,
               !.selected_rockfall_meta = NoValue,
               !.selected_rockfall_photo_path = NoValue,
               !.selected_bus_meta = Some(<<"bus", stop.name>>)]

(***************************************************************************)
(* Bounds and inputs                                                       *)
(***************************************************************************)
MaxRawLen == 3
MaxFiles == 2
MaxWords == 2
MaxRows == 2
MaxChanges == 1
MaxRestarts == 1
MaxHistory == 2
MaxStops == 3
MaxRuns == 2

SeqsUpTo(S, n) == UNION {[1..k -> S] : k \in 0..n}

RECURSIVE Flatten(_)
Flatten(parts) == IF parts = <<>> THEN <<>> ELSE Head(parts) \o Flatten(Tail(parts))

\* one character of every kind _norm_text tells apart
RawChars == {"1", "a", "A", "I_DOT", "ga", JamoL, JamoV, JamoT, " ", "-"}
RawArgs == {NoneArg} \cup {Str(s) : s \in SeqsUpTo(RawChars, MaxRawLen)}

TAEHARI == <<"tae", "ha", "ri">>
N123 == <<"1", "2", "3">>
JPG == <<".", "j", "p", "g">>
File(name) == [name |-> name, is_file |-> TRUE]
SubDir(name) == [name |-> name, is_file |-> FALSE]

\* what a photo folder may hold
DirEntries ==
    {File(TAEHARI \o N123 \o JPG),
     File(ULLEUNG \o <<" ">> \o TAEHARI \o <<" ">> \o N123 \o <<".", "J", "P", "G">>),
     File(N123 \o <<" ">> \o TAEHARI \o <<".", "p", "n", "g">>),
     File(TAEHARI \o <<"-">> \o N123 \o <<".", "j", "p", "e", "g">>),
     File(<<"a", ".", "w", "e", "b", "p">>),
     File(N123 \o TAEHARI \o <<".", "t", "x", "t">>),
     SubDir(<<"a", "1">> \o JPG)}

IsInjective(f) == \A i, j \in DOMAIN f : f[i] = f[j] => i = j
Listings == {l \in SeqsUpTo(DirEntries, MaxFiles) : IsInjective(l)}
DirStates ==
    {[exists |-> FALSE, entries |-> <<>>]}
        \cup {[exists |-> TRUE, entries |-> l] : l \in Listings}

\* the addresses asked for: one or two of these pieces, and the scenarios
QueryParts ==
    {<<>>, ULLEUNG, TAEHARI, N123 \o <<" ">>, TAEHARI \o N123, <<"a">>, <<"1">>}
\* spec.md, example scenario 3
SCENARIO3 ==
    GYEONGSANGBUKDO \o <<" ">> \o ULLEUNGGUN \o <<" ">> \o <<"seo", "myeon">>
        \o <<" ">> \o TAEHARI \o <<" ">> \o N123
\* the same address without the township
SCENARIO3_NO_TOWNSHIP ==
    GYEONGSANGBUKDO \o <<" ">> \o ULLEUNGGUN \o <<" ">> \o TAEHARI \o <<" ">> \o N123
QueryArgs ==
    {NoneArg, Str(<<" ">>), Str(<<"-">>), Str(SCENARIO3), Str(SCENARIO3_NO_TOWNSHIP)}
        \cup {Str(p1 \o p2) : p1 \in QueryParts, p2 \in QueryParts}

\* the notices: up to MaxWords of these words, one after the other
NoticeWords ==
    {<<"gyeol", "hang">>, <<"un", "hang", "tong", "je">>,
     <<"si", "gan", "byeon", "gyeong">>, <<"ip", "hang">>, <<"chul", "hang">>,
     SHUTTLE, POHANG \o <<"ARROW">> \o ULLEUNG, ULLEUNG \o <<"-", ">">> \o POHANG,
     <<"geum", "gwang", "1", "1", "ho">>, <<"seung", "gaek">>, SP,
     POHANG_PORT \o <<"ARROW">> \o ULLEUNG_PORT,
     ULLEUNG_PORT \o <<"ARROW">> \o POHANG_PORT}
\* spec.md, example scenario 1
SCENARIO1 ==
    POHANG \o <<" ", "ARROW", " ">> \o ULLEUNG \o <<" ", "ip", "hang", " ">>
        \o <<"ye", "jeong", "si", "gan", " ", "1", "0", ":", "3", "0", ",", " ">>
        \o <<"geum", "gwang", "1", "1", "ho">>
\* an arrival that names a vessel and its passengers
ARRIVAL_BOTH_GROUPS ==
    <<"ip", "hang", " ", "geum", "gwang", "1", "1", "ho", " ", "seung", "gaek">>
NoticeArgs ==
    {NoneArg, Str(SCENARIO1), Str(ARRIVAL_BOTH_GROUPS)}
        \cup {Str(Flatten(ws)) : ws \in SeqsUpTo(NoticeWords, MaxWords)}
THIS_YEAR == [year |-> YEAR, day |-> 400, slot |-> 1]
LAST_YEAR == [year |-> YEAR - 1, day |-> 1, slot |-> 1]
\* later the same day, the day before, and a day of the year before the window
SAME_DAY == [THIS_YEAR EXCEPT !.slot = 2]
DAY_BEFORE == [THIS_YEAR EXCEPT !.day = 399]
BEFORE_WINDOW == [THIS_YEAR EXCEPT !.day = 370]
\* the notices of the tables of several rows
DayNotices ==
    {<<"gyeol", "hang">>, <<"un", "hang", "tong", "je">>,
     <<"ip", "hang", "geum", "gwang", "1", "1", "ho">>,
     <<"ip", "hang", "seung", "gaek">>,
     <<"chul", "hang", "geum", "gwang", "1", "1", "ho">>}
DayRows ==
    {[ts |-> t, msg |-> Str(m)] :
        t \in {THIS_YEAR, SAME_DAY, DAY_BEFORE, BEFORE_WINDOW}, m \in DayNotices}
\* a table of no row, of one row of any notice, or of up to MaxRows day notices
NoticeTables ==
    {<<>>}
        \cup {<<[ts |-> t, msg |-> m]>> : t \in {THIS_YEAR, LAST_YEAR}, m \in NoticeArgs}
        \cup {t \in SeqsUpTo(DayRows, MaxRows) : Len(t) >= 2}

(***************************************************************************)
(* State                                                                   *)
(***************************************************************************)
VARIABLES
    nArg,       \* the argument of the current _norm_text call
    nOut,       \* what the last _norm_text call returned
    nFirst,     \* what the first call returned
    nCalls,     \* how many times _norm_text was applied
    nTokens,    \* what _tokenize_address returned for nArg, once called
    accDir,     \* the folder acc_pic: exists, and its listing in iterdir() order
    rockDir,    \* the folder rockfall
    accIndex,   \* the cached result of _build_accident_photo_index
    rockIndex,  \* the cached result of _build_rockfall_photo_index
    query,      \* the address the photo finders are asked for
    call,       \* the last finder call: the function and its outcome
    smsTable,   \* sns_raw: the loaded SMS rows
    smsPc,      \* how far the script run is in its calls over sns_raw
    yearly,     \* sms_counts, sms_total, sms_breakdown
    notice,     \* sea_latest_label, sea_latest_text
    eventIn,    \* latest_arrive_sms
    eventOut,   \* latest_depart_sms
    window,     \* monthly_counts, monthly_breakdown
    accMemo,    \* st.cache_data of _find_accident_photo_fast, for the address asked
    rockMemo,   \* st.cache_data of _find_rockfall_photo, for the address asked
    history,    \* the last finder calls: the folder as it was, the index, the result
    nChanges,   \* how many times a photo folder was changed
    nRestarts,  \* how many times the server process was restarted
    busTable,   \* the stop table load_bus_stops_csv returns
    busResult,  \* what build_bus_routes returned: routes and stops
    optFolder,  \* the files of the folder optimize_folder works on: name -> content
    optBackup,  \* the folder <folder>_backup: whether it exists, and its files
    optBefore,  \* the files of the folder when the last run started
    session,    \* the selection fields of st.session_state
    optRuns     \* how many runs of optimize_folder have finished

normVars == <<nArg, nOut, nFirst, nCalls, nTokens>>
procVars == <<accMemo, rockMemo, history, nChanges, nRestarts>>
matchVars == <<accDir, rockDir, accIndex, rockIndex, query, call, procVars>>
smsVars == <<smsTable, smsPc, yearly, notice, eventIn, eventOut, window>>
busVars == <<busTable, busResult>>
optVars == <<optFolder, optBackup, optBefore, optRuns>>
sessVars == <<session>>
restVars == <<busVars, optVars, sessVars>>
vars == <<normVars, matchVars, smsVars, restVars>>

NoCall == [fn |-> "none", out |-> Miss]
NoSummary == Summary(<<>>, ZeroBreakdown)

NoMemo == [has |-> FALSE, out |-> Miss]
ProcIdle ==
    /\ accMemo = NoMemo /\ rockMemo = NoMemo
    /\ history = <<>> /\ nChanges = 0 /\ nRestarts = 0
NoTokens == [done |-> FALSE, tokens |-> {}]
NormIdle ==
    /\ nArg = NoneArg /\ nOut = <<>> /\ nFirst = <<>> /\ nCalls = 0
    /\ nTokens = NoTokens
MatchIdle ==
    /\ accDir = [exists |-> FALSE, entries |-> <<>>]
    /\ rockDir = [exists |-> FALSE, entries |-> <<>>]
    /\ accIndex = NotBuilt /\ rockIndex = NotBuilt
    /\ query = NoneArg /\ call = NoCall
    /\ ProcIdle
SmsResultsIdle ==
    /\ smsPc = 0
    /\ yearly = NoSummary /\ window = NoSummary
    /\ notice = NoNotice /\ eventIn = NoEvent /\ eventOut = NoEvent
SmsIdle == smsTable = <<>> /\ SmsResultsIdle
NoBusResult == [built |-> FALSE, routes |-> <<>>, stops |-> <<>>]
BusIdle == busTable = <<>> /\ busResult = NoBusResult
NoFiles == [exists |-> FALSE, files |-> <<>>]
OptIdle ==
    /\ optFolder = <<>> /\ optBackup = NoFiles /\ optBefore = <<>> /\ optRuns = 0
SessIdle == session = SessionInit
RestIdle == BusIdle /\ OptIdle /\ SessIdle

(***************************************************************************)
(* SpecNorm: _norm_text applied to a string, and again to its own result   *)
(***************************************************************************)
InitNorm ==
    /\ nArg \in RawArgs
    /\ nOut = <<>> /\ nFirst = <<>> /\ nCalls = 0 /\ nTokens = NoTokens
    /\ MatchIdle /\ SmsIdle /\ RestIdle

NormCall ==
    /\ nCalls = 0
    /\ nOut' = _norm_text(nArg)
    /\ nFirst' = _norm_text(nArg)
    /\ nCalls' = 1
    /\ UNCHANGED <<nArg, nTokens, matchVars, smsVars, restVars>>

NormAgain ==
    /\ nCalls = 1
    /\ nArg' = Str(nOut)
    /\ nOut' = _norm_text(Str(nOut))
    /\ nCalls' = 2
    /\ UNCHANGED <<nFirst, nTokens, matchVars, smsVars, restVars>>

NextNorm == NormCall \/ NormAgain
SpecNorm == InitNorm /\ [][NextNorm]_vars

(***************************************************************************)
(* SpecTokenize: _tokenize_address applied to a string                     *)
(***************************************************************************)
\* addresses with several runs of digits and syllables
TokenSamples ==
    {Str(SCENARIO3), Str(TAEHARI \o N123 \o <<"a", "4", "5", "ga", "6">>)}
InitTokenize ==
    /\ nArg \in RawArgs \cup TokenSamples
    /\ nOut = <<>> /\ nFirst = <<>> /\ nCalls = 0 /\ nTokens = NoTokens
    /\ MatchIdle /\ SmsIdle /\ RestIdle

TokenizeAddress ==
    /\ ~nTokens.done
    /\ nTokens' = [done |-> TRUE, tokens |-> _tokenize_address(nArg)]
    /\ UNCHANGED <<nArg, nOut, nFirst, nCalls, matchVars, smsVars, restVars>>

NextTokenize == TokenizeAddress
SpecTokenize == InitTokenize /\ [][NextTokenize]_vars

(***************************************************************************)
(* SpecMatch: the two photo finders over the photo folders. Both folders   *)
(* start with the same listing; the address is drawn at the start and the  *)
(* finders are called on it in any order, any number of times. The         *)
(* per-address memo of st.cache_data on the finders is left out: an index, *)
(* once built, never changes, and before it is built only the early return *)
(* can have run, so a memoized result always equals the recomputed one.    *)
(***************************************************************************)
InitMatch ==
    /\ accDir \in DirStates
    /\ rockDir = accDir
    /\ accIndex = NotBuilt /\ rockIndex = NotBuilt
    /\ query \in QueryArgs
    /\ call = NoCall
    /\ ProcIdle /\ NormIdle /\ SmsIdle /\ RestIdle

FindAccidentPhotoFast ==
    /\ \E r \in _find_accident_photo_fast(query, accIndex, accDir) :
          /\ call' = [fn |-> "acc", out |-> r.out]
          /\ accIndex' = r.cache
    /\ UNCHANGED <<accDir, rockDir, rockIndex, query, procVars, normVars, smsVars, restVars>>

FindRockfallPhoto ==
    /\ LET r == _find_rockfall_photo(query, rockIndex, rockDir)
       IN  /\ call' = [fn |-> "rock", out |-> r.out]
           /\ rockIndex' = r.cache
    /\ UNCHANGED <<accDir, rockDir, accIndex, query, procVars, normVars, smsVars, restVars>>

NextMatch == FindAccidentPhotoFast \/ FindRockfallPhoto
SpecMatch == InitMatch /\ [][NextMatch]_vars

(***************************************************************************)
(* SpecIndex: the two index builders, each called once over its folder.    *)
(* The folders also hold a file whose stem normalizes to the empty string. *)
(***************************************************************************)
IndexEntries == DirEntries \cup {File(<<"-">> \o JPG)}
IndexDirStates ==
    {[exists |-> FALSE, entries |-> <<>>]}
        \cup {[exists |-> TRUE, entries |-> l] :
                 l \in {l \in SeqsUpTo(IndexEntries, MaxFiles) : IsInjective(l)}}

InitIndex ==
    /\ accDir \in IndexDirStates
    /\ rockDir = accDir
    /\ accIndex = NotBuilt /\ rockIndex = NotBuilt
    /\ query = NoneArg /\ call = NoCall
    /\ ProcIdle /\ NormIdle /\ SmsIdle /\ RestIdle

BuildAccidentPhotoIndex ==
    /\ ~accIndex.built
    /\ accIndex' = CachedIndex(accIndex, _build_accident_photo_index(accDir))
    /\ UNCHANGED <<accDir, rockDir, rockIndex, query, call, procVars, normVars, smsVars, restVars>>

BuildRockfallPhotoIndex ==
    /\ ~rockIndex.built
    /\ rockIndex' = CachedIndex(rockIndex, _build_rockfall_photo_index(rockDir))
    /\ UNCHANGED <<accDir, rockDir, accIndex, query, call, procVars, normVars, smsVars, restVars>>

NextIndex == BuildAccidentPhotoIndex \/ BuildRockfallPhotoIndex
SpecIndex == InitIndex /\ [][NextIndex]_vars

(***************************************************************************)
(* SpecProcess: the photo finders with their st.cache_data memos, in a     *)
(* server process that can be restarted, over photo folders that change.   *)
(* A restart empties every st.cache_data store and draws a new string hash *)
(* seed, so the order in which a set of str is walked can differ from one  *)
(* process to the next; inside one process the memo pins the result.       *)
(***************************************************************************)
ProcEntries ==
    {File(TAEHARI \o N123 \o JPG),
     File(ULLEUNG \o <<" ">> \o TAEHARI \o <<" ">> \o N123 \o <<".", "J", "P", "G">>),
     File(<<"a", ".", "w", "e", "b", "p">>)}
ProcListings ==
    {l \in Listings : \A i \in DOMAIN l : l[i] \in ProcEntries}
ProcQueries == {Str(ULLEUNG \o TAEHARI \o N123), Str(TAEHARI \o N123), Str(<<"a">>)}

\* the folder after a file is added, removed or renamed
DirChanges(dir) ==
    LET present == {dir.entries[i] : i \in DOMAIN dir.entries}
        absent == ProcEntries \ present
        added == {Append(dir.entries, e) : e \in absent}
        removed ==
            {SelectSeq(dir.entries, LAMBDA e : e # x) : x \in present}
        renamed ==
            {[dir.entries EXCEPT ![i] = e] : i \in DOMAIN dir.entries, e \in absent}
    IN  {[dir EXCEPT !.entries = l] : l \in (added \cup removed \cup renamed) \cap ProcListings}

\* the calls kept in history: the last MaxHistory
Remember(h, c) ==
    LET all == Append(h, c)
    IN  IF Len(all) > MaxHistory THEN Tail(all) ELSE all

InitProcess ==
    /\ accDir \in {[exists |-> TRUE, entries |-> l] : l \in ProcListings}
    /\ rockDir = accDir
    /\ accIndex = NotBuilt /\ rockIndex = NotBuilt
    /\ query \in ProcQueries
    /\ call = NoCall
    /\ ProcIdle /\ NormIdle /\ SmsIdle /\ RestIdle

\* _find_accident_photo_fast(query) behind its st.cache_data memo
FindAccidentPhotoMemo ==
    /\ \E r \in (IF accMemo.has
                 THEN {[out |-> accMemo.out, cache |-> accIndex]}
                 ELSE _find_accident_photo_fast(query, accIndex, accDir)) :
          /\ call' = [fn |-> "acc", out |-> r.out]
          /\ accIndex' = r.cache
          /\ accMemo' = [has |-> TRUE, out |-> r.out]
          /\ history' = Remember(history,
                 [fn |-> "acc", dir |-> accDir, idx |-> r.cache.idx, out |-> r.out])
    /\ UNCHANGED <<accDir, rockDir, rockIndex, query, rockMemo, nChanges, nRestarts,
                   normVars, smsVars, restVars>>

\* _find_rockfall_photo(query) behind its st.cache_data memo
FindRockfallPhotoMemo ==
    /\ LET r == IF rockMemo.has
                THEN [out |-> rockMemo.out, cache |-> rockIndex]
                ELSE _find_rockfall_photo(query, rockIndex, rockDir)
       IN  /\ call' = [fn |-> "rock", out |-> r.out]
           /\ rockIndex' = r.cache
           /\ rockMemo' = [has |-> TRUE, out |-> r.out]
           /\ history' = Remember(history,
                  [fn |-> "rock", dir |-> rockDir, idx |-> r.cache.idx, out |-> r.out])
    /\ UNCHANGED <<accDir, rockDir, accIndex, query, accMemo, nChanges, nRestarts,
                   normVars, smsVars, restVars>>

\* an image file is added to, removed from or renamed in acc_pic
ChangeAccDir ==
    /\ nChanges < MaxChanges
    /\ accDir' \in DirChanges(accDir)
    /\ nChanges' = nChanges + 1
    /\ UNCHANGED <<rockDir, accIndex, rockIndex, query, call, accMemo, rockMemo,
                   history, nRestarts, normVars, smsVars, restVars>>

\* the same in rockfall
ChangeRockDir ==
    /\ nChanges < MaxChanges
    /\ rockDir' \in DirChanges(rockDir)
    /\ nChanges' = nChanges + 1
    /\ UNCHANGED <<accDir, accIndex, rockIndex, query, call, accMemo, rockMemo,
                   history, nRestarts, normVars, smsVars, restVars>>

\* the server process ends and a new one starts: every store is empty again
Restart ==
    /\ nRestarts < MaxRestarts
    /\ accIndex' = NotBuilt /\ rockIndex' = NotBuilt
    /\ accMemo' = NoMemo /\ rockMemo' = NoMemo
    /\ nRestarts' = nRestarts + 1
    /\ UNCHANGED <<accDir, rockDir, query, call, history, nChanges, normVars, smsVars, restVars>>

NextProcess ==
    \/ FindAccidentPhotoMemo \/ FindRockfallPhotoMemo
    \/ ChangeAccDir \/ ChangeRockDir \/ Restart
SpecProcess == InitProcess /\ [][NextProcess]_vars

(***************************************************************************)
(* SpecBus: build_bus_routes over a stop table of up to MaxStops rows.     *)
(* The result is kept by st.cache_data, so the body runs once.             *)
(***************************************************************************)
\* rows of ullengdo_bus_stops.csv: a stop name with its coordinates
StopRows ==
    {[stop_name |-> DODONG, lat |-> 1, lon |-> 4],
     [stop_name |-> JEODONG_TERMINAL, lat |-> 2, lon |-> 5],
     [stop_name |-> CHEONBU, lat |-> 5, lon |-> 3],
     [stop_name |-> NARI, lat |-> 4, lon |-> 2],
     [stop_name |-> BONGNAE, lat |-> 2, lon |-> 4],
     [stop_name |-> SADONGHANG, lat |-> 0, lon |-> 3]}
StopTables == {t \in SeqsUpTo(StopRows, MaxStops) : IsInjective(t)}

InitBus ==
    /\ busTable \in StopTables
    /\ busResult = NoBusResult
    /\ OptIdle /\ SessIdle /\ NormIdle /\ MatchIdle /\ SmsIdle

BuildBusRoutes ==
    /\ ~busResult.built
    /\ \E r \in build_bus_routes(busTable) :
          busResult' = [built |-> TRUE, routes |-> r.routes, stops |-> r.stops]
    /\ UNCHANGED <<busTable, optVars, sessVars, normVars, matchVars, smsVars>>

NextBus == BuildBusRoutes
SpecBus == InitBus /\ [][NextBus]_vars

(***************************************************************************)
(* SpecOptimize: runs of optimize_folder over one folder, with photos      *)
(* saved into the folder between the runs.                                 *)
(***************************************************************************)
OptNames ==
    {<<"a">> \o JPG, <<"a", ".", "b", "m", "p">>, <<"n", ".", "t", "x", "t">>}
Photos == {"p1", "p2"}
NewFile(photo) == [photo |-> photo, passes |-> 0]

InitOptimize ==
    /\ optFolder \in UNION {[names -> {NewFile(ph) : ph \in Photos}] :
                                names \in SUBSET OptNames}
    /\ optBackup = NoFiles /\ optBefore = <<>> /\ optRuns = 0
    /\ BusIdle /\ SessIdle /\ NormIdle /\ MatchIdle /\ SmsIdle

OptimizeFolder ==
    /\ optRuns < MaxRuns
    /\ \E r \in optimize_folder(optFolder, optBackup) :
          optFolder' = r.folder /\ optBackup' = r.backup
    /\ optBefore' = optFolder
    /\ optRuns' = optRuns + 1
    /\ UNCHANGED <<busVars, sessVars, normVars, matchVars, smsVars>>

\* a photo is saved into the folder, as a new file or over an old one
SavePhoto ==
    /\ optRuns < MaxRuns
    /\ \E n \in OptNames, ph \in Photos :
          optFolder' = FilePut(optFolder, n, NewFile(ph))
    /\ UNCHANGED <<optBackup, optBefore, optRuns, busVars, sessVars, normVars, matchVars, smsVars>>

NextOptimize == OptimizeFolder \/ SavePhoto
SpecOptimize == InitOptimize /\ [][NextOptimize]_vars

(***************************************************************************)
(* SpecSession: a browser session of app.py, from the session state init,  *)
(* through any sequence of selections in the accident, rockfall and bus    *)
(* tabs.                                                                   *)
(***************************************************************************)
\* accidents: one with coordinates and a photo, one with neither
AccRows ==
    {[idx |-> 0, year |-> YEAR, label |-> "detail", photo |-> Some("acc_pic/a.jpg"),
      coords |-> Some(<<1, 4>>)],
     [idx |-> 1, year |-> YEAR - 1, label |-> "address", photo |-> NoValue,
      coords |-> NoValue]}
RockItems ==
    {[idx |-> 0, name |-> "rock", photo |-> Some("rockfall/r.jpg"),
      coords |-> Some(<<2, 5>>)],
     [idx |-> 1, name |-> "", photo |-> NoValue, coords |-> NoValue]}
BusStops == {[name |-> "dodong"], [name |-> "nari"]}

InitSession ==
    /\ session = SessionInit
    /\ BusIdle /\ OptIdle /\ NormIdle /\ MatchIdle /\ SmsIdle

\* the buttons that switch a tab between its list and its map
AccidentViewButton ==
    /\ session' = [session EXCEPT !.view_mode = IF @ = "list" THEN "map" ELSE "list"]
    /\ UNCHANGED <<busVars, optVars, normVars, matchVars, smsVars>>

RockfallViewButton ==
    /\ session' = [session EXCEPT !.rock_view_mode = IF @ = "list" THEN "map" ELSE "list"]
    /\ UNCHANGED <<busVars, optVars, normVars, matchVars, smsVars>>

AccidentListButton ==
    /\ session.view_mode = "list"
    /\ \E row \in AccRows : session' = accident_list_button(session, AccRows, row)
    /\ UNCHANGED <<busVars, optVars, normVars, matchVars, smsVars>>

AccidentMapClick ==
    /\ session.view_mode = "map"
    /\ \E row \in AccRows :
          /\ row.coords # NoValue
          /\ session' = accident_map_click(session, AccRows, row)
    /\ UNCHANGED <<busVars, optVars, normVars, matchVars, smsVars>>

RockfallListButton ==
    /\ session.rock_view_mode = "list"
    /\ \E item \in RockItems : session' = rockfall_list_button(session, item)
    /\ UNCHANGED <<busVars, optVars, normVars, matchVars, smsVars>>

RockfallMapClick ==
    /\ session.rock_view_mode = "map"
    /\ \E item \in RockItems :
          /\ item.coords # NoValue
          /\ session' = rockfall_map_click(session, item)
    /\ UNCHANGED <<busVars, optVars, normVars, matchVars, smsVars>>

BusStopClick ==
    /\ \E stop \in BusStops : session' = bus_stop_click(session, stop)
    /\ UNCHANGED <<busVars, optVars, normVars, matchVars, smsVars>>

NextSession ==
    \/ AccidentListButton \/ AccidentMapClick \/ RockfallListButton
    \/ RockfallMapClick \/ BusStopClick
    \/ AccidentViewButton \/ RockfallViewButton
SpecSession == InitSession /\ [][NextSession]_vars

(***************************************************************************)
(* SpecNotice: one script run of app.py over the loaded SMS table:         *)
(* the yearly summary, the latest notice, the latest arrival and departure *)
(* events and the window summary, in the order app.py calls them.          *)
(***************************************************************************)
InitNotice ==
    /\ smsTable \in NoticeTables
    /\ SmsResultsIdle
    /\ NormIdle /\ MatchIdle /\ RestIdle

SummarizeYear ==
    /\ smsPc = 0
    /\ yearly' = _summarize_sms_notice_counts(smsTable, YEAR)
    /\ smsPc' = 1
    /\ UNCHANGED <<smsTable, notice, eventIn, eventOut, window, normVars, matchVars, restVars>>

LatestSeaNotice ==
    /\ smsPc = 1
    /\ notice' \in _latest_sea_notice(smsTable, YEAR)
    /\ smsPc' = 2
    /\ UNCHANGED <<smsTable, yearly, eventIn, eventOut, window, normVars, matchVars, restVars>>

LatestArrival ==
    /\ smsPc = 2
    /\ eventIn' \in _latest_sea_event(smsTable, YEAR, IPHANG)
    /\ smsPc' = 3
    /\ UNCHANGED <<smsTable, yearly, notice, eventOut, window, normVars, matchVars, restVars>>

LatestDeparture ==
    /\ smsPc = 3
    /\ eventOut' \in _latest_sea_event(smsTable, YEAR, CHULHANG)
    /\ smsPc' = 4
    /\ UNCHANGED <<smsTable, yearly, notice, eventIn, window, normVars, matchVars, restVars>>

SummarizeWindow ==
    /\ smsPc = 4
    /\ window' = _summarize_sms_notice_counts_window(
                     smsTable,
                     IF smsTable = <<>> THEN NoWindow ELSE WindowStart(SmsEnd(smsTable)),
                     SmsEnd(smsTable))
    /\ smsPc' = 5
    /\ UNCHANGED <<smsTable, yearly, notice, eventIn, eventOut, normVars, matchVars, restVars>>

NextNotice ==
    \/ SummarizeYear \/ LatestSeaNotice \/ LatestArrival \/ LatestDeparture
    \/ SummarizeWindow
SpecNotice == InitNotice /\ [][NextNotice]_vars

(***************************************************************************)
(* Properties of the matcher                                               *)
(***************************************************************************)
Called == call.fn # "none"
\* the index the last call looked at
UsedIndex == IF call.fn = "acc" THEN accIndex.idx ELSE rockIndex.idx
\* the token-overlap score of the query with an index key
Score(key) ==
    Cardinality(_tokenize_address(query) \cap _tokenize_address(Str(key)))
\* the candidate keys the called finder tries in its exact tier
ExactKeys ==
    IF call.fn = "acc" THEN _address_candidates(query) ELSE {_norm_text(query)}
KEY_TAEHARI123 == TAEHARI \o N123

\* C1: _norm_text is idempotent: applied to its own result it returns that
\* result again.
C1_Idempotent == nCalls = 2 => nOut = nFirst
\* the second call ran on a result that jamo composition produced
C1_Witness == nCalls = 2 /\ nFirst = <<"gak">>

\* C2: _norm_text(None) and _norm_text("") are ""; a query whose normalized
\* form is empty makes either finder return None from its early return, and
\* neither photo index is built.
C2_TotalOnEmpty ==
    /\ query \in {NoneArg, Str(<<>>)} => _norm_text(query) = <<>>
    /\ (Called /\ _norm_text(query) = <<>>) =>
          /\ call.out = Empty
          /\ ~accIndex.built /\ ~rockIndex.built
C2_Witness ==
    /\ call.fn = "acc" /\ query = Str(<<" ">>)
    /\ accDir.exists /\ Len(accDir.entries) = MaxFiles
    /\ call.out.path = None /\ ~accIndex.built

\* C3 (as claimed): when the query's normalized key is an index key, the
\* finder returns the item stored under that key.
C3_ExactPrecedence ==
    (Called /\ _norm_text(query) \in IndexKeys(UsedIndex)) =>
        call.out.path = IndexGet(UsedIndex, _norm_text(query))

\* C4: the token tier never returns the item of a key that shares fewer than
\* two tokens with the query, and a query sharing at least two tokens with
\* some index key always resolves to an item.
C4_TokenThreshold ==
    Called =>
        /\ call.out.tier = "token" => Score(call.out.key) >= MinScore
        /\ (\E i \in DOMAIN UsedIndex : Score(UsedIndex[i].key) >= MinScore)
              => call.out.path # None
\* a token-tier hit in an index that also holds a key sharing one token
C4_Witness ==
    /\ Called /\ call.out.tier = "token"
    /\ \E i \in DOMAIN UsedIndex : Score(UsedIndex[i].key) = 1

\* C5 (as claimed): scenario 3 resolves by an exact candidate match to the
\* entry whose key is the normalization of "Taehari123".
C5_Scenario3 ==
    (call.fn = "acc" /\ query = Str(SCENARIO3)
        /\ KEY_TAEHARI123 \in IndexKeys(accIndex.idx)) =>
        /\ call.out.tier = "exact"
        /\ call.out.path = IndexGet(accIndex.idx, KEY_TAEHARI123)

\* C5 (amended): the address without the township, province and county
\* directly followed by the village, resolves by an exact match on the
\* candidate key left after stripping the province and county names.
C5_Scenario3NoTownship ==
    (call.fn = "acc" /\ query = Str(SCENARIO3_NO_TOWNSHIP)
        /\ KEY_TAEHARI123 \in IndexKeys(accIndex.idx)) =>
        /\ call.out.tier = "exact"
        /\ call.out.key = KEY_TAEHARI123
        /\ call.out.key # _norm_text(query)
        /\ call.out.path = IndexGet(accIndex.idx, KEY_TAEHARI123)
C5_Witness ==
    /\ call.fn = "acc" /\ query = Str(SCENARIO3_NO_TOWNSHIP)
    /\ call.out.tier = "exact" /\ call.out.key = KEY_TAEHARI123

\* C6 (as claimed): a query without a token overlap of two or more with any
\* index key resolves to None.
C6_NoOverlapNotFound ==
    (Called /\ \A i \in DOMAIN UsedIndex : Score(UsedIndex[i].key) < MinScore)
        => call.out.path = None

\* C6 (amended): such a query resolves to None unless one of its candidate
\* keys is an index key, or it has no token and the substring tier finds a
\* key that contains it or that it contains.
C6_NoOverlapNoExactNotFound ==
    (/\ Called
     /\ \A i \in DOMAIN UsedIndex : Score(UsedIndex[i].key) < MinScore
     /\ ExactKeys \cap IndexKeys(UsedIndex) = {}
     /\ \/ _tokenize_address(query) # {}
        \/ \A i \in DOMAIN UsedIndex : \A t \in ExactKeys :
              ~Contains(UsedIndex[i].key, t) /\ ~Contains(t, UsedIndex[i].key))
        => call.out.path = None
\* one shared token, no exact hit, a non-empty index: None
C6_Witness ==
    /\ call.fn = "rock" /\ call.out.path = None
    /\ ExactKeys \cap IndexKeys(UsedIndex) = {}
    /\ \E i \in DOMAIN UsedIndex : Score(UsedIndex[i].key) = 1

(***************************************************************************)
(* Properties of the notice classifier                                     *)
(***************************************************************************)
\* the labelled rows of every operation that has run
LabelledRows ==
    {yearly.work[i] : i \in DOMAIN yearly.work}
        \cup {notice.work[i] : i \in DOMAIN notice.work}
        \cup {eventIn.work[i] : i \in DOMAIN eventIn.work}
        \cup {eventOut.work[i] : i \in DOMAIN eventOut.work}
        \cup {window.work[i] : i \in DOMAIN window.work}
SummaryRows ==
    {yearly.work[i] : i \in DOMAIN yearly.work}
        \cup {window.work[i] : i \in DOMAIN window.work}
RunDone == smsPc = 5
\* the label an operation gave the only row of the table, None if it gave none
OnlyLabel(work) == IF work = <<>> THEN NoLabel ELSE work[1].label
\* the text the operations see of the only row
OnlyText == Strip(AsTypeStr(smsTable[1].msg))
BreakdownTotal(b) ==
    b[IPHANG][SEONBAK] + b[IPHANG][SARAM] + b[CHULHANG][SEONBAK] + b[CHULHANG][SARAM]

\* C7 (as claimed): in every operation that labels notices, a message with a
\* cancellation keyword and an arrival keyword is labelled cancel, never
\* arrival.
C7_CancelBeatsArrival ==
    \A r \in LabelledRows :
        (ContainsAny(r.text, SMS_CANCEL_KEYWORDS)
            /\ ContainsAny(r.text, SMS_ARRIVE_KEYWORDS)) => r.label = GYEOLHANG

\* C8 (as claimed): the yearly summary, the window summary and the latest
\* notice give a message of the year the same category, or none of them
\* gives it one.
C8_SameCascade ==
    (RunDone /\ Len(smsTable) = 1 /\ smsTable[1].ts.year = YEAR) =>
        /\ OnlyLabel(yearly.work) = OnlyLabel(window.work)
        /\ OnlyLabel(yearly.work) = OnlyLabel(notice.work)

\* C9: a message counts under at most one category, and a message labelled
\* cancel, control or time change has no sub-group and adds nothing to the
\* arrival/departure breakdown.
C9_Exclusive ==
    /\ yearly.total <= Len(smsTable) /\ window.total <= Len(smsTable)
    /\ \A r \in SummaryRows :
          r.label \in {GYEOLHANG, UNHANGTONGJE, SIGANBYEONGYEONG} => r.group = NoLabel
    /\ BreakdownTotal(yearly.breakdown)
          <= CountRows(yearly.work, IsArrivalDeparture)
    /\ BreakdownTotal(window.breakdown)
          <= CountRows(window.work, IsArrivalDeparture)
\* a cancellation that names a vessel, counted once as a cancellation
C9_Witness ==
    /\ RunDone /\ Len(smsTable) = 1
    /\ Contains(OnlyText, <<"gyeol", "hang">>)
    /\ ContainsAny(OnlyText, ship_keywords)
    /\ yearly.counts[GYEOLHANG] = 1 /\ window.counts[GYEOLHANG] = 1
    /\ BreakdownTotal(yearly.breakdown) = 0

\* C10: a message that contains the shuttle marker gets no category and is
\* in no count, no breakdown and no latest notice or event.
C10_ShuttleExcluded ==
    /\ \A r \in LabelledRows : ~Contains(r.text, SHUTTLE)
    /\ \A res \in {notice, eventIn, eventOut} :
          res.found => ~Contains(res.row.text, SHUTTLE)
    /\ (Len(smsTable) = 1 /\ Contains(OnlyText, SHUTTLE)) =>
          /\ yearly.counts = ZeroCounts /\ yearly.breakdown = ZeroBreakdown
          /\ yearly.total = 0
          /\ window.counts = ZeroCounts /\ window.breakdown = ZeroBreakdown
          /\ ~notice.found /\ ~eventIn.found /\ ~eventOut.found
\* a shuttle notice of this year that also carries a cancellation keyword
C10_Witness ==
    /\ RunDone /\ Len(smsTable) = 1 /\ smsTable[1].ts.year = YEAR
    /\ Contains(OnlyText, SHUTTLE)
    /\ ContainsAny(OnlyText, SMS_CANCEL_KEYWORDS)

\* the days on which a summary has a row of a category, and of a category
\* and sub-group
DaysOf(work, l) == {work[i].ts.day : i \in {j \in DOMAIN work : work[j].label = l}}
DaysOfGroup(work, l, g) ==
    {work[i].ts.day :
        i \in {j \in DOMAIN work : work[j].label = l /\ work[j].group = g}}

\* C11: the notice of example scenario 1 (Pohang -> Ulleung, arrival due
\* 10:30, vessel Geumgwang 11) is classified as arrival with sub-group vessel.
C11_Scenario1 ==
    (smsPc >= 1 /\ smsTable = <<[ts |-> THIS_YEAR, msg |-> Str(SCENARIO1)]>>) =>
        /\ Len(yearly.work) = 1
        /\ yearly.work[1].label = IPHANG /\ yearly.work[1].group = SEONBAK
        /\ yearly.breakdown[IPHANG][SEONBAK] = 1 /\ yearly.counts[IPHANG] = 1
        /\ yearly.total = 1
C11_Witness ==
    /\ RunDone /\ smsTable = <<[ts |-> THIS_YEAR, msg |-> Str(SCENARIO1)]>>
    /\ yearly.breakdown[IPHANG][SEONBAK] = 1

\* C12: in the yearly and in the window summary the count of cancel, of
\* control and of time change is the number of distinct days that have a
\* message of that category.
C12_DedupPerDay ==
    \A l \in {GYEOLHANG, UNHANGTONGJE, SIGANBYEONGYEONG} :
        /\ yearly.counts[l] = Cardinality(DaysOf(yearly.work, l))
        /\ window.counts[l] = Cardinality(DaysOf(window.work, l))
\* two cancellations on one day, counted once by both summaries
C12_Witness ==
    /\ RunDone /\ Len(smsTable) = 2 /\ Len(yearly.work) = 2
    /\ smsTable[1].ts.day = smsTable[2].ts.day
    /\ \A i \in 1..2 : yearly.work[i].label = GYEOLHANG
    /\ yearly.counts[GYEOLHANG] = 1 /\ window.counts[GYEOLHANG] = 1

\* C13 (as claimed): in the yearly and in the window summary
\* breakdown[category][sub-group] is the number of distinct days that have a
\* message of that category and sub-group.
C13_BreakdownDedup ==
    \A l \in {IPHANG, CHULHANG} : \A g \in {SEONBAK, SARAM} :
        /\ yearly.breakdown[l][g] = Cardinality(DaysOfGroup(yearly.work, l, g))
        /\ window.breakdown[l][g] = Cardinality(DaysOfGroup(window.work, l, g))

\* a folder that is missing or holds no image file
NoImage(dir) ==
    ~dir.exists
        \/ \A i \in DOMAIN dir.entries :
              \/ ~dir.entries[i].is_file
              \/ Lower(PathSuffix(dir.entries[i].name)) \notin ImageExts

\* C15: the index of a missing folder, or of a folder without an image file,
\* is empty, and every query resolved against an empty index gives None.
C15_AbsenceIsValue ==
    /\ (accIndex.built /\ NoImage(accDir)) => accIndex.idx = <<>>
    /\ (rockIndex.built /\ NoImage(rockDir)) => rockIndex.idx = <<>>
    /\ (Called /\ UsedIndex = <<>>) => call.out.path = None
\* a query with two tokens looked up in a folder that holds only a text file
\* and a sub-folder
C15_Witness ==
    /\ call.fn = "rock" /\ query = Str(TAEHARI \o N123)
    /\ rockDir.exists /\ Len(rockDir.entries) = 2
    /\ rockIndex.built /\ rockIndex.idx = <<>>
    /\ call.out.path = None

\* what the finder a call went to gives when it is evaluated afresh on the
\* folder as it was at the call
FreshOutcomes(h) ==
    IF h.fn = "acc"
    THEN {r.out : r \in _find_accident_photo_fast(query, NotBuilt, h.dir)}
    ELSE {_find_rockfall_photo(query, NotBuilt, h.dir).out}
FreshIndex(h) ==
    IF h.fn = "acc" THEN _build_accident_photo_index(h.dir)
    ELSE _build_rockfall_photo_index(h.dir)

\* C14 (as claimed): after a file of a photo folder is added, removed or
\* renamed, the index a finder call works on and the result of the call are
\* those of the folder's contents at the time of the call.
C14_MemoInvalidated ==
    \A i \in DOMAIN history :
        /\ history[i].out \in FreshOutcomes(history[i])
        /\ history[i].out.tier # "empty" => history[i].idx = FreshIndex(history[i])

\* C18 (as claimed): two evaluations of the accident photo finder for the
\* same query over the same index return the same item.
C18_Deterministic ==
    \A i, j \in DOMAIN history :
        (history[i].fn = history[j].fn /\ history[i].idx = history[j].idx)
            => history[i].out.path = history[j].out.path

\* the polyline the route's own stops give: the coordinates of every stop
\* name of the route that resolves against the table, in the route's order
RECURSIVE OwnPoints(_, _, _)
OwnPoints(df, stops, i) ==
    IF i > Len(stops) THEN <<>>
    ELSE LET match == _match_bus_stop(df, stops[i])
         IN  (IF match.found THEN <<(<<match.lat, match.lon>>)>> ELSE <<>>)
                 \o OwnPoints(df, stops, i + 1)
\* the stop is one of the stops of the route's definition: by its name, or
\* as the table row a stop name of the route resolves to
OnRoute(stop, route) ==
    \E i \in DOMAIN route.stops :
        \/ _norm_text(Str(route.stops[i])) = stop.key
        \/ _match_bus_stop(busTable, route.stops[i])
               = [found |-> TRUE, lat |-> stop.lat, lon |-> stop.lon]
TimesListed(stop, route) ==
    Cardinality({i \in DOMAIN stop.routes : stop.routes[i] = route.name})

\* C16 (as claimed): the polyline of every route of the catalog is made of
\* the coordinates of the route's own stops, in the order of its stop list,
\* and of no other stop.
C16_OwnStopsPolyline ==
    busResult.built =>
        \A i \in DOMAIN _bus_route_defs :
            busResult.routes[i].points
                = OwnPoints(busTable, _bus_route_defs[i].stops, 1)

\* C17 (as claimed): a stop's routes list names a route exactly when the
\* stop is one of the stops of the route's definition, and names it once.
C17_ReverseMapping ==
    busResult.built =>
        \A k \in DOMAIN busResult.stops : \A i \in DOMAIN _bus_route_defs :
            /\ TimesListed(busResult.stops[k], _bus_route_defs[i]) <= 1
            /\ TimesListed(busResult.stops[k], _bus_route_defs[i]) = 1
                  <=> OnRoute(busResult.stops[k], _bus_route_defs[i])

\* C19 (as claimed): after a run of optimize_folder, every image file that
\* was in the folder when the run started has its picture, no more
\* optimized than it was at the start, under the same name in the backup
\* folder.
C19_OriginalsKept ==
    optRuns > 0 =>
        \A n \in DOMAIN optBefore :
            IsImage(n) =>
                /\ optBackup.exists /\ n \in DOMAIN optBackup.files
                /\ optBackup.files[n].photo = optBefore[n].photo
                /\ optBackup.files[n].passes <= optBefore[n].passes

\* the category of the first rule that matches, in the order cancel, control,
\* time change, direct inbound pattern, route patterns, plain keywords
FirstRule(msg, label) ==
    LET cancel == ContainsAny(msg, SMS_CANCEL_KEYWORDS)
        control == ContainsAny(msg, SMS_CONTROL_KEYWORDS)
        change == ContainsAny(msg, SMS_CHANGE_KEYWORDS)
        direct == PohangDirect(msg)
        arrive == UNION ArriveRouteStarts(msg)
        depart == UNION DepartRouteStarts(msg)
        has_arrive == ContainsAny(msg, SMS_ARRIVE_KEYWORDS)
        has_depart == ContainsAny(msg, SMS_DEPART_KEYWORDS)
        early == ~cancel /\ ~control /\ ~change /\ ~direct
    IN  /\ cancel => label = GYEOLHANG
        /\ (control /\ ~cancel) => label = UNHANGTONGJE
        /\ (change /\ ~cancel /\ ~control) => label = SIGANBYEONGYEONG
        /\ (direct /\ ~cancel /\ ~control /\ ~change) => label = IPHANG
        /\ (early /\ depart # {} /\ \A a \in arrive : \E d \in depart : d < a)
              => label = CHULHANG
        /\ (early /\ arrive # {} /\ \A d \in depart : \E a \in arrive : a <= d)
              => label = IPHANG
        /\ (early /\ arrive = {} /\ depart = {})
              => label = (IF has_arrive /\ ~has_depart THEN IPHANG
                          ELSE IF has_depart /\ ~has_arrive THEN CHULHANG
                          ELSE NoLabel)

\* C20: classify, in the yearly summary and in the latest-notice lookup,
\* returns the category of the first rule that matches in the order cancel,
\* control, time change, direct inbound pattern, route-direction patterns,
\* plain arrival/departure keywords: a control keyword without a cancel
\* keyword gives control whatever else the message holds, a time-change
\* keyword without those gives time change, and the direct inbound pattern
\* gives arrival even after an earlier departure route pattern.
C20_RuleOrder ==
    (smsPc >= 2 /\ Len(smsTable) = 1 /\ smsTable[1].ts.year = YEAR
        /\ ~Contains(OnlyText, SHUTTLE)) =>
        /\ FirstRule(OnlyText, OnlyLabel(yearly.work))
        /\ FirstRule(OnlyText, OnlyLabel(notice.work))
\* a departure route pattern first and the direct inbound pattern after it:
\* arrival
C20_Witness ==
    /\ smsPc >= 2 /\ Len(smsTable) = 1 /\ smsTable[1].ts.year = YEAR
    /\ PohangDirect(OnlyText)
    /\ RoutePos(DepartRouteStarts(OnlyText)) # NoPos
    /\ RoutePos(DepartRouteStarts(OnlyText)) < RoutePos(ArriveRouteStarts(OnlyText))
    /\ OnlyLabel(yearly.work) = IPHANG /\ OnlyLabel(notice.work) = IPHANG

\* none of the rules before the route patterns applies to msg
NoEarlyRule(msg) ==
    /\ ~ContainsAny(msg, SMS_CANCEL_KEYWORDS)
    /\ ~ContainsAny(msg, SMS_CONTROL_KEYWORDS)
    /\ ~ContainsAny(msg, SMS_CHANGE_KEYWORDS)
    /\ ~PohangDirect(msg)
\* the only row of the table is a notice of the year that classify has seen
OneClassified ==
    /\ smsPc >= 2 /\ Len(smsTable) = 1 /\ smsTable[1].ts.year = YEAR
    /\ ~Contains(OnlyText, SHUTTLE)
\* the least start of a match of a pattern set, given that one matches
Earliest(startSets) == Min(UNION startSets)

\* C21: when no earlier rule applies and route patterns of both directions
\* match, classify gives the direction whose earliest match starts first
\* (departure only if its start is strictly smaller); when the patterns of
\* one direction only match, it gives that direction.
C21_PositionalTieBreak ==
    (OneClassified /\ NoEarlyRule(OnlyText)) =>
        LET arrive == UNION ArriveRouteStarts(OnlyText)
            depart == UNION DepartRouteStarts(OnlyText)
            expected == IF arrive # {} /\ depart # {}
                        THEN (IF Earliest(DepartRouteStarts(OnlyText))
                                    < Earliest(ArriveRouteStarts(OnlyText))
                              THEN CHULHANG ELSE IPHANG)
                        ELSE IF depart # {} THEN CHULHANG ELSE IPHANG
        IN  (arrive # {} \/ depart # {}) =>
                /\ OnlyLabel(yearly.work) = expected
                /\ OnlyLabel(notice.work) = expected
\* both directions match, the departure first: departure
C21_Witness ==
    /\ OneClassified /\ NoEarlyRule(OnlyText)
    /\ UNION ArriveRouteStarts(OnlyText) # {}
    /\ UNION DepartRouteStarts(OnlyText) # {}
    /\ Earliest(DepartRouteStarts(OnlyText)) < Earliest(ArriveRouteStarts(OnlyText))
    /\ OnlyLabel(yearly.work) = CHULHANG /\ OnlyLabel(notice.work) = CHULHANG

\* no route pattern of either direction matches msg
NoRoute(msg) ==
    UNION ArriveRouteStarts(msg) = {} /\ UNION DepartRouteStarts(msg) = {}
\* the category of the keyword fallback
KeywordCategory(msg) ==
    LET has_arrive == ContainsAny(msg, SMS_ARRIVE_KEYWORDS)
        has_depart == ContainsAny(msg, SMS_DEPART_KEYWORDS)
    IN  IF has_arrive /\ ~has_depart THEN IPHANG
        ELSE IF has_depart /\ ~has_arrive THEN CHULHANG
        ELSE NoLabel

SubGroup(msg) ==
    IF ContainsAny(msg, SMS_SHIP_KEYWORDS \cup SMS_SHIP_VESSEL_KEYWORDS
                            \cup SMS_CARGO_KEYWORDS) THEN SEONBAK
    ELSE IF ContainsAny(msg, SMS_PEOPLE_KEYWORDS \cup SMS_PEOPLE_VESSEL_KEYWORDS
                                 \cup SMS_PASSENGER_KEYWORDS) THEN SARAM
    ELSE NoLabel
\* the breakdown a summary of one arrival or departure row has
OneRowBreakdown(r) ==
    [l \in {IPHANG, CHULHANG} |-> [g \in {SEONBAK, SARAM} |->
        IF l = r.label /\ g = SubGroup(r.text) THEN 1 ELSE 0]]

\* C23: in both summaries an arrival or departure message is vessel if it
\* holds a vessel keyword (operator, vessel name, cargo term), else passenger
\* if it holds a passenger keyword, else it has no sub-group and is in no
\* cell of the breakdown; keywords of both sets give vessel.
C23_SubGroup ==
    /\ \A r \in SummaryRows : IsArrivalDeparture(r) => r.group = SubGroup(r.text)
    /\ (Len(yearly.work) = 1 /\ IsArrivalDeparture(yearly.work[1]))
          => yearly.breakdown = OneRowBreakdown(yearly.work[1])
    /\ (Len(window.work) = 1 /\ IsArrivalDeparture(window.work[1]))
          => window.breakdown = OneRowBreakdown(window.work[1])
\* an arrival with a vessel name and a passenger keyword: vessel
C23_Witness ==
    /\ RunDone /\ smsTable = <<[ts |-> THIS_YEAR, msg |-> Str(ARRIVAL_BOTH_GROUPS)]>>
    /\ yearly.breakdown[IPHANG][SEONBAK] = 1 /\ yearly.breakdown[IPHANG][SARAM] = 0
    /\ window.breakdown[IPHANG][SEONBAK] = 1 /\ window.breakdown[IPHANG][SARAM] = 0

(***************************************************************************)
(* Properties of the tiers of the matcher                                  *)
(***************************************************************************)
\* the positions of the index keys that contain the query key or that the
\* query key contains
SubstringHits ==
    {i \in DOMAIN UsedIndex :
        \/ Contains(UsedIndex[i].key, _norm_text(query))
        \/ Contains(_norm_text(query), UsedIndex[i].key)}
ExactMiss == ExactKeys \cap IndexKeys(UsedIndex) = {}

\* C24: the substring tier runs only when the exact tier misses and the
\* query has no token; it returns the item of the first index key, in index
\* order, that contains the query key or is contained in it, and None when
\* there is none; a query with a token never resolves by the substring tier.
C24_SubstringTier ==
    (Called /\ _norm_text(query) # <<>>) =>
        /\ call.out.tier = "substring"
              => ExactMiss /\ _tokenize_address(query) = {}
        /\ (ExactMiss /\ _tokenize_address(query) = {}) =>
              IF SubstringHits = {} THEN call.out.path = None
              ELSE /\ call.out.tier = "substring"
                   /\ call.out.key = UsedIndex[Min(SubstringHits)].key
                   /\ call.out.path = UsedIndex[Min(SubstringHits)].path
\* two index keys contain the query key: the first one is returned
C24_Witness ==
    /\ Called /\ call.out.tier = "substring"
    /\ Cardinality(SubstringHits) >= 2
    /\ call.out.key = UsedIndex[Min(SubstringHits)].key

\* the positions of the index keys with the greatest token overlap
BestScored ==
    {i \in DOMAIN UsedIndex :
        \A j \in DOMAIN UsedIndex : Score(UsedIndex[j].key) <= Score(UsedIndex[i].key)}

ImagesOf(dir) ==
    {i \in DOMAIN dir.entries :
        /\ dir.entries[i].is_file
        /\ Lower(PathSuffix(dir.entries[i].name)) \in ImageExts}
KeyOf(dir, i) == _norm_text(Str(PathStem(dir.entries[i].name)))
\* idx is the index of dir: one entry per distinct non-empty key, holding the
\* first file of that key
IsIndexOf(idx, dir, dirName) ==
    /\ \A i, j \in DOMAIN idx : idx[i].key = idx[j].key => i = j
    /\ IndexKeys(idx) = {KeyOf(dir, i) : i \in ImagesOf(dir)} \ {<<>>}
    /\ \A k \in DOMAIN idx :
          idx[k].path = PathOf(dirName,
              dir.entries[Min({i \in ImagesOf(dir) : KeyOf(dir, i) = idx[k].key})].name)

\* C26: a photo index holds one entry per distinct non-empty normalized stem
\* of the image files (.jpg, .jpeg, .png, .webp) of its folder, and an entry
\* keeps the path of the first file of its key: a later file never replaces
\* it.
C26_IndexFirstWins ==
    /\ (accIndex.built /\ accDir.exists) => IsIndexOf(accIndex.idx, accDir, "acc_pic")
    /\ (rockIndex.built /\ rockDir.exists) => IsIndexOf(rockIndex.idx, rockDir, "rockfall")
\* two image files of one key: the entry holds the first
C26_Witness ==
    /\ accIndex.built /\ Len(accIndex.idx) = 1
    /\ Cardinality(ImagesOf(accDir)) = 2
    /\ KeyOf(accDir, 1) = KeyOf(accDir, 2)
    /\ accIndex.idx[1].path = PathOf("acc_pic", accDir.entries[1].name)

(***************************************************************************)
(* Properties of the tokenizer                                             *)
(***************************************************************************)
\* s[i..j] is a maximal run of characters of cls
IsMaximalRun(s, i, j, cls) ==
    /\ i <= j /\ \A k \in i..j : s[k] \in cls
    /\ i = 1 \/ s[i - 1] \notin cls
    /\ j = Len(s) \/ s[j + 1] \notin cls
MaximalRuns(s) ==
    {SubSeq(s, r[1], r[2]) :
        r \in {r \in (1..Len(s)) \X (1..Len(s)) :
                  \/ IsMaximalRun(s, r[1], r[2], Digits)
                  \/ IsMaximalRun(s, r[1], r[2], HangulSyllables)}}

C28_SameResolve ==
    (call.fn = "acc" /\ rockDir = accDir) =>
        call.out.path.name
            = _find_rockfall_photo(query, rockIndex, rockDir).out.path.name

(***************************************************************************)
(* Properties of the selection                                             *)
(***************************************************************************)
\* C29: after any sequence of selections at most one of selected_acc_meta,
\* selected_rockfall_meta and selected_bus_meta is not None.
C29_OneSelection ==
    Cardinality({f \in {"selected_acc_meta", "selected_rockfall_meta",
                         "selected_bus_meta"} : session[f] # NoValue}) <= 1
\* a bus stop selected after an accident was: the accident meta is gone
C29_Witness ==
    /\ session.selected_bus_meta # NoValue
    /\ session.selected_acc_idx # NoValue
    /\ session.selected_acc_meta = NoValue

\* C30 (as claimed): whenever selected_acc_meta is None, selected_acc_idx,
\* selected_acc_label and selected_acc_center are None too.
C30_NoStaleAccident ==
    session.selected_acc_meta = NoValue =>
        /\ session.selected_acc_idx = NoValue
        /\ session.selected_acc_label = NoValue
        /\ session.selected_acc_center = NoValue

====
